---- MODULE Spec2Model ----
(***************************************************************************)
(* A model of the aifw anonymization / restoration engine.                 *)
(*                                                                         *)
(*  - Spec      : the session state machine of libs/aifw-py/libaifw.py     *)
(*                (init, deinit, config, mask_text, restore_text, the two  *)
(*                batch variants and get_pii_spans) on top of the native   *)
(*                core, whose session functions are modelled from the      *)
(*                design document (the core is not part of src/).          *)
(*  - SpecRace  : deinit of libaifw.py called from two threads.            *)
(*  - SpecOffsets, SpecTokens : the offset conversions of libaifw.py and   *)
(*                cli one_aifw_api.py, and the token offsets of libner.py. *)
(*  - SpecPolicy, SpecAnon, SpecRestore, SpecMask, SpecResolve,            *)
(*    SpecConcurrent : the AnonymizerWrapper of                            *)
(*                py-origin/services/app/anonymizer.py (mask policy,       *)
(*                anonymize, restore), character by character.             *)
(*  - SpecApi   : OneAIFWAPI of py-origin/services/app/one_aifw_api.py.    *)
(*  - SpecInstances, SpecCli : OneAIFWAPI of cli/python/services/app, the  *)
(*                HTTP service built on it and the config command of       *)
(*                cli/python/aifw.py.                                      *)
(*                                                                         *)
(* Python values are modelled as follows: None, True and False are the     *)
(* strings "None", "True" and "False"; a dict is a function whose DOMAIN   *)
(* is the set of its keys; a list is a sequence; a str that is only passed *)
(* around is a TLA+ string, a str whose characters matter is a sequence of *)
(* one-character strings.                                                  *)
(***************************************************************************)
EXTENDS Integers, Sequences, FiniteSets, TLC

VARIABLES
    _SESSION_OPEN,          \* libaifw._SESSION_OPEN
    _CORE,                  \* libaifw._CORE: "None" or "CDLL"
    _CORE_SHUTDOWN_CALLED,  \* libaifw._CORE_SHUTDOWN_CALLED
    _SESSION_HANDLE,        \* libaifw._SESSION_HANDLE: 0 is the null handle
    _NER_EN,                \* libaifw._NER_EN: "None" or "coroutine"
    _NER_ZH,                \* libaifw._NER_ZH: "None" or "coroutine"
    coreSessions,           \* native core: live session handle -> its mask bits
    coreDestroyed,          \* native core: handle -> number of aifw_session_destroy calls
    coreShutdowns,          \* native core: number of aifw_shutdown calls
    lastCall,               \* the last call: what it got, did and gave (op "input":
                            \* the arguments of a call that has not been made yet)
    _mask_config,           \* py-origin AnonymizerWrapper._mask_config
    in_flight,              \* py-origin AnonymizerWrapper.anonymize: the locals of a call
                            \* that is running in a thread of its own (i = 0: none is)
    instances,              \* cli OneAIFWAPI: the instances that were constructed and
                            \* not yet deleted, each with the mask_config its owner
                            \* last gave to config ({} before the first config)
    deinit_threads          \* libaifw.deinit: for each thread that may call it, where
                            \* its call stands and the locals of the call

vars == <<_SESSION_OPEN, _CORE, _CORE_SHUTDOWN_CALLED, _SESSION_HANDLE, _NER_EN, _NER_ZH,
          coreSessions, coreDestroyed, coreShutdowns, lastCall, _mask_config, in_flight,
          instances, deinit_threads>>

libaifwVars == <<_SESSION_OPEN, _CORE, _CORE_SHUTDOWN_CALLED, _SESSION_HANDLE, _NER_EN, _NER_ZH>>

coreVars == <<coreSessions, coreDestroyed, coreShutdowns>>

wrapperVars == <<_mask_config, in_flight, deinit_threads>>

NumThreads == 2   \* threads that call deinit

\* no thread is in deinit
NoThreads == [t \in 1..NumThreads |-> [pc |-> "idle", h |-> 0, calls |-> <<>>]]

\* no anonymize call is running
NoCall == [results |-> <<>>, i |-> 0, kept |-> <<>>, cfgs |-> {}]

(***************************************************************************)
(* Bounds of the model.                                                    *)
(***************************************************************************)
MaxSessions == 2     \* core sessions created in one run
MaxBatch == 2        \* items in one batch call

(***************************************************************************)
(* Mask policy of libaifw: a 12-bit set, one bit per entity type.          *)
(***************************************************************************)
\* _get_mask_bits_from_mask_config: the (key, bit) pairs in the order applied
MaskFlagBits ==
    << <<"maskAddress", {0}>>, <<"maskEmail", {1}>>, <<"maskOrganization", {2}>>,
       <<"maskUserName", {3}>>, <<"maskPhoneNumber", {4}>>, <<"maskBankNumber", {5}>>,
       <<"maskPayment", {6}>>, <<"maskVerificationCode", {7}>>, <<"maskPassword", {8}>>,
       <<"maskRandomSeed", {9}>>, <<"maskPrivateKey", {10}>>, <<"maskUrl", {11}>>,
       <<"maskAll", 0..11>> >>

\* dict.get(key): None for an absent key
DictGet(d, k) == IF k \in DOMAIN d THEN d[k] ELSE "None"

\* the core's aifw_default_mask_bits(): every type but the address
aifw_default_mask_bits == (0..11) \ {0}

\* apply(flag, bit) of _get_mask_bits_from_mask_config
apply(mask_bits, flag, bit) ==
    IF flag = "True" THEN mask_bits \cup bit
    ELSE IF flag = "False" THEN mask_bits \ bit
    ELSE mask_bits

RECURSIVE ApplyFlagsFrom(_, _, _)
ApplyFlagsFrom(mask_bits, mask_cfg, i) ==
    IF i > Len(MaskFlagBits) THEN mask_bits
    ELSE ApplyFlagsFrom(apply(mask_bits, DictGet(mask_cfg, MaskFlagBits[i][1]),
                                  MaskFlagBits[i][2]),
                        mask_cfg, i + 1)

\* a slip: the new policy is merged into the session's current one
GetMaskBitsMerging(mask_cfg) ==
    ApplyFlagsFrom(IF _SESSION_HANDLE \in DOMAIN coreSessions
                   THEN coreSessions[_SESSION_HANDLE] ELSE aifw_default_mask_bits,
                   mask_cfg, 1)

_get_mask_bits_from_mask_config(mask_cfg) ==
    ApplyFlagsFrom(aifw_default_mask_bits, mask_cfg, 1)

\* the flags a caller sets in the model, and the policies built from them
InputFlags == {"maskAddress", "maskEmail", "maskAll"}

MaskConfigs == UNION {[S -> {"True", "False"}] : S \in SUBSET InputFlags}

(***************************************************************************)
(* The native core (core/aifw_core.zig is not part of src/): what its      *)
(* session functions do to the core's own state.                           *)
(***************************************************************************)
\* aifw_session_create(init_args): a new session holding the given mask bits
aifw_session_create(handle, mask_bits) ==
    /\ coreSessions' = [h \in DOMAIN coreSessions \cup {handle} |->
                           IF h = handle THEN mask_bits ELSE coreSessions[h]]
    /\ coreDestroyed' = [h \in DOMAIN coreDestroyed \cup {handle} |->
                           IF h = handle THEN 0 ELSE coreDestroyed[h]]

\* aifw_session_destroy(handle): the session is freed
aifw_session_destroy(handle) ==
    /\ coreSessions' = [h \in DOMAIN coreSessions \ {handle} |-> coreSessions[h]]
    /\ coreDestroyed' = [coreDestroyed EXCEPT ![handle] = @ + 1]

\* aifw_session_config(handle, cfg): the session's mask bits become cfg's
aifw_session_config(handle, mask_bits) ==
    /\ coreSessions' = [coreSessions EXCEPT ![handle] = mask_bits]
    /\ UNCHANGED coreDestroyed

\* the string aifw_session_restore_with_meta gives for a masked text and its meta
CoreRestored(masked_text, mask_meta) == <<"restored", masked_text, mask_meta>>

(***************************************************************************)
(* libaifw.py                                                              *)
(***************************************************************************)
Call(op, outcome, calls, cfg, items, out) ==
    [op |-> op, outcome |-> outcome, calls |-> calls, cfg |-> cfg, items |-> items,
     out |-> out]

_session_handle_is_valid == _SESSION_HANDLE # 0

\* a slip: only the library is looked at
EnsureReadyCoreOnly == _CORE # "None"

\* TRUE when _ensure_ready() returns, FALSE when it raises "AIFW not initialized"
_ensure_ready == _SESSION_OPEN /\ _CORE # "None" /\ _session_handle_is_valid

\* a slip: init does not look at _SESSION_OPEN
InitNeverReturnsAtOnce == FALSE

\* init: TRUE when it returns at once because the session is open
init_returns_at_once == _SESSION_OPEN

\* init(options): options["maskConfig"] is mask_cfg. lib_found: _load_core_native
\* finds the shared library; created: aifw_session_create returns a handle (what
\* the core does once it has been shut down is not defined: both are possible).
init(mask_cfg, lib_found, created) ==
    /\ UNCHANGED wrapperVars
    /\ IF init_returns_at_once
       THEN /\ lastCall' = Call("init", "ok", <<>>, mask_cfg, <<>>, <<>>)
            /\ UNCHANGED <<libaifwVars, coreVars>>
       ELSE /\ Cardinality(DOMAIN coreDestroyed) < MaxSessions
            /\ _NER_EN' = "coroutine"
            /\ _NER_ZH' = "coroutine"
            /\ UNCHANGED <<_CORE_SHUTDOWN_CALLED, coreShutdowns>>
            /\ IF ~lib_found
               THEN /\ lastCall' = Call("init", "RuntimeError", <<>>, <<>>, <<>>, <<>>)
                    /\ UNCHANGED <<_SESSION_OPEN, _CORE, _SESSION_HANDLE, coreSessions, coreDestroyed>>
               ELSE /\ _CORE' = "CDLL"
                    /\ IF created
                       THEN LET handle == Cardinality(DOMAIN coreDestroyed) + 1 IN
                            /\ aifw_session_create(handle, _get_mask_bits_from_mask_config(mask_cfg))
                            /\ _SESSION_HANDLE' = handle
                            /\ _SESSION_OPEN' = TRUE
                            /\ lastCall' = Call("init", "ok",
                                                <<"aifw_default_mask_bits", "aifw_session_create">>,
                                                <<>>, <<>>, <<>>)
                       ELSE /\ lastCall' = Call("init", "RuntimeError",
                                                <<"aifw_default_mask_bits", "aifw_session_create">>,
                                                <<>>, <<>>, <<>>)
                            /\ UNCHANGED <<_SESSION_OPEN, _SESSION_HANDLE, coreSessions, coreDestroyed>>

\* _destroy_session(): TRUE when it passes the handle to aifw_session_destroy
_destroy_session == _SESSION_HANDLE # 0

\* a slip: the shutdown flag is not looked at
DeinitShutsDownAlways == _CORE # "None"

\* deinit(): TRUE when it calls aifw_shutdown
deinit_shuts_down == ~_CORE_SHUTDOWN_CALLED /\ _CORE # "None"

deinit ==
    /\ UNCHANGED wrapperVars
    /\ IF _destroy_session
       THEN aifw_session_destroy(_SESSION_HANDLE)
       ELSE UNCHANGED <<coreSessions, coreDestroyed>>
    /\ IF deinit_shuts_down
       THEN /\ coreShutdowns' = coreShutdowns + 1
            /\ _CORE_SHUTDOWN_CALLED' = TRUE
       ELSE UNCHANGED <<coreShutdowns, _CORE_SHUTDOWN_CALLED>>
    /\ _SESSION_HANDLE' = 0
    /\ _NER_EN' = "None"
    /\ _NER_ZH' = "None"
    /\ _SESSION_OPEN' = FALSE
    /\ UNCHANGED _CORE
    /\ lastCall' = Call("deinit", "ok",
                        (IF _destroy_session THEN <<"aifw_session_destroy">> ELSE <<>>)
                            \o (IF deinit_shuts_down THEN <<"aifw_shutdown">> ELSE <<>>),
                        <<>>, <<>>, <<>>)

config(mask_cfg) ==
    /\ UNCHANGED wrapperVars
    /\ IF ~_ensure_ready
       THEN /\ lastCall' = Call("config", "NotInitialized", <<>>, mask_cfg, <<>>, <<>>)
            /\ UNCHANGED <<libaifwVars, coreVars>>
       ELSE /\ aifw_session_config(_SESSION_HANDLE, _get_mask_bits_from_mask_config(mask_cfg))
            /\ lastCall' = Call("config", "ok",
                                <<"aifw_default_mask_bits", "aifw_session_config">>,
                                mask_cfg, <<>>, <<>>)
            /\ UNCHANGED <<libaifwVars, coreShutdowns>>

\* str(x or ""): None becomes the empty string
StrOrEmpty(x) == IF x = "None" THEN "" ELSE x

\* mask_text(input_text, language) on a ready session: ner_pipe is what init stored
\* in _NER_EN / _NER_ZH, the un-awaited coroutine of libner.build_ner_pipeline, so
\* ner_pipe.run raises before the core is called, whatever the text and the language
mask_text_result(input_text, language) ==
    [outcome |-> "AttributeError", calls |-> <<>>, masked |-> <<>>, meta |-> <<>>]

\* restore_text(masked_text, mask_meta) on a ready session; core is what the core's
\* aifw_session_restore_with_meta reports for this text and meta
restore_text_result(masked_text, mask_meta, core) ==
    IF mask_meta = "None"
    THEN [outcome |-> "TypeError", calls |-> <<>>, value |-> <<>>]
    ELSE IF core = "rc"
    THEN [outcome |-> "RuntimeError",
          calls |-> <<"aifw_malloc", "aifw_session_restore_with_meta">>, value |-> <<>>]
    ELSE IF core = "null"
    THEN [outcome |-> "ok",
          calls |-> <<"aifw_malloc", "aifw_session_restore_with_meta">>, value |-> <<>>]
    ELSE [outcome |-> "ok",
          calls |-> <<"aifw_malloc", "aifw_session_restore_with_meta", "aifw_string_free">>,
          value |-> CoreRestored(StrOrEmpty(masked_text), mask_meta)]

mask_text(item) ==
    /\ UNCHANGED wrapperVars
    /\ lastCall' =
         IF ~_ensure_ready
         THEN Call("mask_text", "NotInitialized", <<>>, <<>>, <<item>>, <<>>)
         ELSE LET r == mask_text_result(item.text, item.language) IN
              Call("mask_text", r.outcome, r.calls, <<>>, <<item>>,
                   IF r.outcome = "ok" THEN <<r.masked, r.meta>> ELSE <<>>)
    /\ UNCHANGED <<libaifwVars, coreVars>>

restore_text(item) ==
    /\ UNCHANGED wrapperVars
    /\ lastCall' =
         IF ~_ensure_ready
         THEN Call("restore_text", "NotInitialized", <<>>, <<>>, <<item>>, <<>>)
         ELSE LET r == restore_text_result(item.text, item.maskMeta, item.core) IN
              Call("restore_text", r.outcome, r.calls, <<>>, <<item>>,
                   IF r.outcome = "ok" THEN <<r.value>> ELSE <<>>)
    /\ UNCHANGED <<libaifwVars, coreVars>>

\* get_pii_spans(input_text, language): ner_pipe.run raises as in mask_text
get_pii_spans(item) ==
    /\ UNCHANGED wrapperVars
    /\ lastCall' =
         IF ~_ensure_ready
         THEN Call("get_pii_spans", "NotInitialized", <<>>, <<>>, <<item>>, <<>>)
         ELSE LET r == mask_text_result(item.text, item.language) IN
              Call("get_pii_spans", r.outcome, r.calls, <<>>, <<item>>, <<>>)
    /\ UNCHANGED <<libaifwVars, coreVars>>

\* a slip: an item that fails is left out and the loop goes on
RECURSIVE MaskBatchSkipping(_, _, _)
MaskBatchSkipping(items, i, acc) ==
    IF i > Len(items) THEN acc
    ELSE LET it == items[i]
             r == IF it.kind = "str"
                  THEN mask_text_result(it.text, "None")
                  ELSE mask_text_result(StrOrEmpty(it.text), it.language)
         IN  IF r.outcome # "ok"
             THEN MaskBatchSkipping(items, i + 1, acc)
             ELSE MaskBatchSkipping(items, i + 1,
                      [outcome |-> "ok", calls |-> acc.calls \o r.calls,
                       out |-> Append(acc.out, [text |-> r.masked, maskMeta |-> r.meta])])

\* the loop of mask_text_batch from item i on; acc is [outcome, calls, out] so far
RECURSIVE mask_text_batch_loop(_, _, _)
mask_text_batch_loop(items, i, acc) ==
    IF i > Len(items) THEN acc
    ELSE LET it == items[i]
             r == IF it.kind = "str"
                  THEN mask_text_result(it.text, "None")
                  ELSE mask_text_result(StrOrEmpty(it.text), it.language)
         IN  IF r.outcome # "ok"
             THEN [outcome |-> r.outcome, calls |-> acc.calls \o r.calls, out |-> <<>>]
             ELSE mask_text_batch_loop(items, i + 1,
                      [outcome |-> "ok", calls |-> acc.calls \o r.calls,
                       out |-> Append(acc.out, [text |-> r.masked, maskMeta |-> r.meta])])

\* a slip: the results are collected in reverse order
RECURSIVE RestoreBatchReversing(_, _, _)
RestoreBatchReversing(items, i, acc) ==
    IF i > Len(items) THEN acc
    ELSE LET r == restore_text_result(StrOrEmpty(items[i].text), items[i].maskMeta,
                                      items[i].core)
         IN  IF r.outcome # "ok"
             THEN [outcome |-> r.outcome, calls |-> acc.calls \o r.calls, out |-> <<>>]
             ELSE RestoreBatchReversing(items, i + 1,
                      [outcome |-> "ok", calls |-> acc.calls \o r.calls,
                       out |-> <<[text |-> r.value]>> \o acc.out])

\* the loop of restore_text_batch from item i on; acc is [outcome, calls, out] so far
RECURSIVE restore_text_batch_loop(_, _, _)
restore_text_batch_loop(items, i, acc) ==
    IF i > Len(items) THEN acc
    ELSE LET r == restore_text_result(StrOrEmpty(items[i].text), items[i].maskMeta,
                                      items[i].core)
         IN  IF r.outcome # "ok"
             THEN [outcome |-> r.outcome, calls |-> acc.calls \o r.calls, out |-> <<>>]
             ELSE restore_text_batch_loop(items, i + 1,
                      [outcome |-> "ok", calls |-> acc.calls \o r.calls,
                       out |-> Append(acc.out, [text |-> r.value])])

EmptyBatch == [outcome |-> "ok", calls |-> <<>>, out |-> <<>>]

mask_text_batch(text_and_language_array) ==
    /\ UNCHANGED wrapperVars
    /\ lastCall' =
         IF ~_ensure_ready
         THEN Call("mask_text_batch", "NotInitialized", <<>>, <<>>,
                   text_and_language_array, <<>>)
         ELSE LET r == mask_text_batch_loop(text_and_language_array, 1, EmptyBatch) IN
              Call("mask_text_batch", r.outcome, r.calls, <<>>,
                   text_and_language_array, r.out)
    /\ UNCHANGED <<libaifwVars, coreVars>>

restore_text_batch(text_and_mask_meta_array) ==
    /\ UNCHANGED wrapperVars
    /\ lastCall' =
         IF ~_ensure_ready
         THEN Call("restore_text_batch", "NotInitialized", <<>>, <<>>,
                   text_and_mask_meta_array, <<>>)
         ELSE LET r == restore_text_batch_loop(text_and_mask_meta_array, 1, EmptyBatch) IN
              Call("restore_text_batch", r.outcome, r.calls, <<>>,
                   text_and_mask_meta_array, r.out)
    /\ UNCHANGED <<libaifwVars, coreVars>>

(***************************************************************************)
(* The inputs of the model and the specification of the session.           *)
(***************************************************************************)
\* maskConfig options given to init
InitConfigs == {<<>>, [maskAll |-> "True"], [maskEmail |-> "False"]}

\* a plain str item, and a dict item { text, language } whose text is None
MaskItems ==
    {[kind |-> "str", text |-> "x", language |-> "None"],
     [kind |-> "dict", text |-> "None", language |-> "zh"]}

\* dict items { text, maskMeta }, each with what the core reports for it
RestoreItems ==
    {[text |-> "x", maskMeta |-> "m", core |-> "str"],
     [text |-> "x", maskMeta |-> "m", core |-> "rc"],
     [text |-> "x", maskMeta |-> "m", core |-> "null"],
     [text |-> "None", maskMeta |-> "m", core |-> "str"],
     [text |-> "x", maskMeta |-> "None", core |-> "str"]}

SeqsUpTo(S, n) == UNION {[1..k -> S] : k \in 0..n}

\* libaifw as imported, on a core that was never called
Fresh ==
    /\ _SESSION_OPEN = FALSE
    /\ _CORE = "None"
    /\ _CORE_SHUTDOWN_CALLED = FALSE
    /\ _SESSION_HANDLE = 0
    /\ _NER_EN = "None"
    /\ _NER_ZH = "None"
    /\ coreSessions = <<>>
    /\ coreDestroyed = <<>>
    /\ coreShutdowns = 0

Init ==
    /\ Fresh
    /\ lastCall = Call("none", "ok", <<>>, <<>>, <<>>, <<>>)
    /\ _mask_config = <<>>
    /\ in_flight = NoCall
    /\ deinit_threads = NoThreads
    /\ instances = <<>>

Next ==
    \/ \E mask_cfg \in InitConfigs, lib_found \in BOOLEAN, created \in BOOLEAN :
          init(mask_cfg, lib_found, created) /\ UNCHANGED instances
    \/ deinit /\ UNCHANGED instances
    \/ \E mask_cfg \in MaskConfigs : config(mask_cfg) /\ UNCHANGED instances
    \/ \E item \in MaskItems : mask_text(item) /\ UNCHANGED instances
    \/ \E item \in RestoreItems : restore_text(item) /\ UNCHANGED instances
    \/ \E item \in MaskItems : get_pii_spans(item) /\ UNCHANGED instances
    \/ \E items \in SeqsUpTo(MaskItems, MaxBatch) : mask_text_batch(items) /\ UNCHANGED instances
    \/ \E items \in SeqsUpTo(RestoreItems, MaxBatch) :
          restore_text_batch(items) /\ UNCHANGED instances

Spec == Init /\ [][Next]_vars

(***************************************************************************)
(* Claims about the session of libaifw.                                    *)
(***************************************************************************)
GuardedOps ==
    {"mask_text", "restore_text", "mask_text_batch", "restore_text_batch",
     "get_pii_spans", "config"}

\* C2: a call of mask_text, restore_text, mask_text_batch, restore_text_batch,
\* get_pii_spans or config made while the session is not open (before any init, or
\* after deinit) fails with the "AIFW not initialized" error, calls no core function
\* and leaves the state of libaifw and of the core unchanged.
C2_NotReadyCallFails ==
    [][(~_SESSION_OPEN /\ lastCall'.op \in GuardedOps) =>
          /\ lastCall'.outcome = "NotInitialized"
          /\ lastCall'.calls = <<>>
          /\ UNCHANGED <<libaifwVars, coreVars>>]_vars

\* a config call refused after the session was torn down
C2_Witness ==
    /\ lastCall.op = "config"
    /\ lastCall.outcome = "NotInitialized"
    /\ coreShutdowns = 1

\* the session was never initialized: no init got as far as loading the core
NeverInitialized == ~_SESSION_OPEN /\ _CORE = "None"

\* a deinit has torn the session down and no init has made a new one since
TornDown == ~_SESSION_OPEN /\ _SESSION_HANDLE = 0 /\ _CORE_SHUTDOWN_CALLED

Destroyed == ~_SESSION_OPEN /\ \E h \in DOMAIN coreDestroyed : coreDestroyed[h] > 0

\* C4: Destroyed is terminal: once deinit has torn the session down, no later call
\* makes the session ready again.
C4_DestroyedIsTerminal == [][Destroyed => ~_SESSION_OPEN']_vars

\* C19: init called while the session is open, with any options, returns without
\* calling the core and leaves the state of libaifw and of the core, the session
\* handle and the mask policy of the session among it, unchanged.
C19_InitIdempotent ==
    [][(_SESSION_OPEN /\ lastCall'.op = "init") =>
          /\ lastCall'.outcome = "ok"
          /\ lastCall'.calls = <<>>
          /\ UNCHANGED <<libaifwVars, coreVars>>]_vars

\* init({maskConfig: {maskEmail: false}}) on a session that masks everything: the
\* session still does
C19_Witness ==
    /\ lastCall.op = "init"
    /\ lastCall.calls = <<>>
    /\ lastCall.cfg = [maskEmail |-> "False"]
    /\ _SESSION_OPEN
    /\ coreSessions[_SESSION_HANDLE] = 0..11

\* the key of _get_mask_bits_from_mask_config whose bit is b
FlagOfBit(b) == MaskFlagBits[CHOOSE i \in 1..Len(MaskFlagBits) : MaskFlagBits[i][2] = {b}][1]

\* the documented defaults overlaid with the flags of policy c: the maskAll override
\* if c has one, else c's own flag for the bit, else the default (all but the address)
PolicyOf(c) ==
    {b \in 0..11 :
        IF DictGet(c, "maskAll") \in {"True", "False"} THEN c["maskAll"] = "True"
        ELSE IF DictGet(c, FlagOfBit(b)) \in {"True", "False"} THEN c[FlagOfBit(b)] = "True"
        ELSE b # 0}

\* C5: after config(c) the policy of the session is the documented defaults
\* overlaid with the flags of c only, whatever policy was active before.
C5_ConfigReplacesPolicy ==
    (lastCall.op = "config" /\ lastCall.outcome = "ok") =>
        coreSessions[_SESSION_HANDLE] = PolicyOf(lastCall.cfg)

\* config({maskAddress: true}) gives the session all twelve bits: the defaults and
\* the address, nothing of an earlier policy
C5_Witness ==
    /\ lastCall.op = "config"
    /\ lastCall.outcome = "ok"
    /\ lastCall.cfg = [maskAddress |-> "True"]
    /\ coreSessions[_SESSION_HANDLE] = 0..11

Chars(s) == [i \in 1..Len(s) |-> SubSeq(s, i, i)]

Range(f) == {f[i] : i \in DOMAIN f}

UpperCase == Chars("ABCDEFGHIJKLMNOPQRSTUVWXYZ")

LowerCase == Chars("abcdefghijklmnopqrstuvwxyz")

DigitChars == Chars("0123456789")

OctDigits == Range(Chars("01234567"))

ToLower == [c \in Range(UpperCase) |-> LowerCase[CHOOSE i \in 1..26 : UpperCase[i] = c]]

ToUpper == [c \in Range(LowerCase) |-> UpperCase[CHOOSE i \in 1..26 : LowerCase[i] = c]]

Lower(c) == IF c \in DOMAIN ToLower THEN ToLower[c] ELSE c

\* str.upper()
upper(s) == [i \in 1..Len(s) |-> IF s[i] \in DOMAIN ToUpper THEN ToUpper[s[i]] ELSE s[i]]

\* \d and [\w-] of the re module, on ASCII
Digits == Range(DigitChars)

IsDigit(c) == c \in Digits

IsLetter(c) == c \in DOMAIN ToLower \/ c \in DOMAIN ToUpper

WordOrHyphen == Digits \cup Range(UpperCase) \cup Range(LowerCase) \cup {"_", "-"}

\* a slice bound as Python normalises it: negative counts from the end, then clamped
PyIndex(n, len) ==
    IF n < 0 THEN (IF n + len < 0 THEN 0 ELSE n + len)
    ELSE IF n > len THEN len ELSE n

\* s[lo:hi]
PySlice(s, lo, hi) == SubSeq(s, PyIndex(lo, Len(s)) + 1, PyIndex(hi, Len(s)))

\* t occurs in s at index i (from 1)
OccursAt(s, t, i) ==
    /\ i + Len(t) - 1 <= Len(s)
    /\ \A k \in 1..Len(t) : s[i + k - 1] = t[k]

\* the same under re.IGNORECASE
OccursAtIgnoreCase(s, t, i) ==
    /\ i + Len(t) - 1 <= Len(s)
    /\ \A k \in 1..Len(t) : Lower(s[i + k - 1]) = Lower(t[k])

\* t in s
Contains(s, t) == \E i \in 1..(Len(s) - Len(t) + 1) : OccursAt(s, t, i)

\* s.replace(old, new): the occurrences of old, leftmost first, not overlapping
RECURSIVE ReplaceFrom(_, _, _, _)
ReplaceFrom(s, old, new, i) ==
    IF Len(old) = 0
    THEN (IF i > Len(s) THEN new ELSE new \o <<s[i]>> \o ReplaceFrom(s, old, new, i + 1))
    ELSE IF i > Len(s) THEN <<>>
    ELSE IF OccursAt(s, old, i) THEN new \o ReplaceFrom(s, old, new, i + Len(old))
    ELSE <<s[i]>> \o ReplaceFrom(s, old, new, i + 1)

\* re.search(r"_(\d+)__$", placeholder_token): group 1, or <<>> when there is no
\* match ($ is the end of the token or the place before a final newline)
TokenUid(token) ==
    LET e == IF Len(token) > 0 /\ token[Len(token)] = "\n" THEN Len(token) - 1 ELSE Len(token)
        D == {d \in 1..(e - 2) : \A k \in d..(e - 2) : IsDigit(token[k])}
        first == CHOOSE d \in D : \A x \in D : d <= x
    IN  IF e >= 4 /\ token[e] = "_" /\ token[e - 1] = "_" /\ D # {}
           /\ first > 1 /\ token[first - 1] = "_"
        THEN SubSeq(token, first, e - 2)
        ELSE <<>>

\* the characters the template escapes \a \b \f \n \r \t \v stand for
TemplateEscapes ==
    [a |-> "BEL", b |-> "BS", f |-> "\f", n |-> "\n", r |-> "\r", t |-> "\t", v |-> "VT"]

TemplateError == [ok |-> FALSE, text |-> <<>>]

TemplateCons(prefix, rest) ==
    IF rest.ok THEN [ok |-> TRUE, text |-> prefix \o rest.text] ELSE rest

\* the replacement template repl of re.sub expanded for the match m of a pattern
\* without groups (sre_parse.parse_template and expand_template): ok is FALSE where
\* the re module raises re.error or IndexError
RECURSIVE expand_template(_, _, _)
expand_template(repl, m, i) ==
    IF i > Len(repl) THEN [ok |-> TRUE, text |-> <<>>]
    ELSE IF repl[i] # "\\" THEN TemplateCons(<<repl[i]>>, expand_template(repl, m, i + 1))
    ELSE IF i = Len(repl) THEN TemplateError
    ELSE LET c == repl[i + 1]
             oct(k) == i + k <= Len(repl) /\ repl[i + k] \in OctDigits
         IN
         IF c = "g"
         THEN LET C == {j \in (i + 3)..Len(repl) : repl[j] = ">"}
                  close == CHOOSE j \in C : \A x \in C : j <= x
              IN  IF /\ i + 2 <= Len(repl) /\ repl[i + 2] = "<" /\ C # {}
                     /\ close > i + 3
                     /\ \A k \in (i + 3)..(close - 1) : repl[k] = "0"
                  THEN TemplateCons(m, expand_template(repl, m, close + 1))
                  ELSE TemplateError
         ELSE IF c = "0"
         THEN IF oct(2) /\ oct(3)
              THEN TemplateCons(<<"\\0" \o repl[i + 2] \o repl[i + 3]>>,
                                expand_template(repl, m, i + 4))
              ELSE IF oct(2)
              THEN TemplateCons(<<"\\0" \o repl[i + 2]>>, expand_template(repl, m, i + 3))
              ELSE TemplateCons(<<"\\0">>, expand_template(repl, m, i + 2))
         ELSE IF IsDigit(c)
         THEN IF oct(1) /\ oct(2) /\ oct(3) /\ c \in {"1", "2", "3"}
              THEN TemplateCons(<<"\\" \o c \o repl[i + 2] \o repl[i + 3]>>,
                                expand_template(repl, m, i + 4))
              ELSE TemplateError
         ELSE IF c = "\\" THEN TemplateCons(<<"\\">>, expand_template(repl, m, i + 2))
         ELSE IF c \in DOMAIN TemplateEscapes
         THEN TemplateCons(<<TemplateEscapes[c]>>, expand_template(repl, m, i + 2))
         ELSE IF IsLetter(c) THEN TemplateError
         ELSE TemplateCons(<<"\\", c>>, expand_template(repl, m, i + 2))

\* the matches of the literal pat in s under re.IGNORECASE, leftmost first and not
\* overlapping, each replaced by the expanded template (pat is not empty)
RECURSIVE SubLiteralFrom(_, _, _, _)
SubLiteralFrom(s, pat, repl, i) ==
    IF i > Len(s) THEN <<>>
    ELSE IF OccursAtIgnoreCase(s, pat, i)
    THEN expand_template(repl, SubSeq(s, i, i + Len(pat) - 1), 1).text
            \o SubLiteralFrom(s, pat, repl, i + Len(pat))
    ELSE <<s[i]>> \o SubLiteralFrom(s, pat, repl, i + 1)

\* re.sub(re.escape(...), repl, s, flags=re.IGNORECASE): the template is compiled
\* before the search, so a bad template raises whether or not pat occurs in s
re_sub_literal(pat, repl, s) ==
    IF ~expand_template(repl, <<>>, 1).ok
    THEN [outcome |-> "re.error", value |-> <<>>]
    ELSE [outcome |-> "ok", value |-> SubLiteralFrom(s, pat, repl, 1)]

\* restore(): unique_id_to_value, the original values by the unique id of their
\* token; a later entry of placeholders_map overwrites an earlier one
RECURSIVE unique_id_to_value(_, _, _)
unique_id_to_value(placeholders_map, i, acc) ==
    IF i > Len(placeholders_map) THEN acc
    ELSE LET uid == TokenUid(placeholders_map[i][1]) IN
         unique_id_to_value(placeholders_map, i + 1,
             IF uid = <<>> THEN acc
             ELSE [u \in DOMAIN acc \cup {uid} |->
                      IF u = uid THEN placeholders_map[i][2] ELSE acc[u]])

\* restore(), first pass: exact replacements in the order of the mapping
RECURSIVE exact_replacements(_, _, _)
exact_replacements(placeholders_map, i, restored) ==
    IF i > Len(placeholders_map) THEN restored
    ELSE exact_replacements(placeholders_map, i + 1,
             IF Contains(restored, placeholders_map[i][1])
             THEN ReplaceFrom(restored, placeholders_map[i][1], placeholders_map[i][2], 1)
             ELSE restored)

\* restore(), second pass (A): the original value followed by the leaked id suffix
\* "<uid>__" is replaced by the value used as a re.sub template
RECURSIVE suffix_fix(_, _, _)
suffix_fix(placeholders_map, i, restored) ==
    IF i > Len(placeholders_map) THEN [outcome |-> "ok", value |-> restored]
    ELSE LET unique_id == TokenUid(placeholders_map[i][1])
             original_value == placeholders_map[i][2]
             r == re_sub_literal(original_value \o unique_id \o <<"_", "_">>,
                                 original_value, restored)
         IN  IF unique_id = <<>> THEN suffix_fix(placeholders_map, i + 1, restored)
             ELSE IF r.outcome # "ok" THEN r
             ELSE suffix_fix(placeholders_map, i + 1, r.value)

\* "PII" under re.IGNORECASE at index p of s
PiiAt(s, p) ==
    /\ p + 2 <= Len(s)
    /\ Lower(s[p]) = "p" /\ Lower(s[p + 1]) = "i" /\ Lower(s[p + 2]) = "i"

\* the end of the longest run of characters of class C starting at index q of s
\* (q - 1 when there is none)
RunEnd(s, q, C) ==
    LET E == {e \in (q - 1)..Len(s) : \A k \in q..e : s[k] \in C}
    IN  CHOOSE e \in E : \A x \in E : x <= e

\* generic_pattern r"_?_{0,1}PII[\w-]*_(\d+)_?_{0,1}" matched with k leading
\* underscores at index st of s: [\w-]* is greedy and gives back until "_" and a
\* digit follow, so group 1 starts after the last "_<digit>" of the run
GenericMatchWith(s, st, k) ==
    LET q == st + k + 3
        r == RunEnd(s, q, WordOrHyphen)
        J == {j \in q..(r - 1) : s[j] = "_" /\ IsDigit(s[j + 1])}
        j0 == CHOOSE j \in J : \A x \in J : x <= j
        d == RunEnd(s, j0 + 1, Digits)
        u == RunEnd(s, d + 1, {"_"})
    IN  IF /\ \A x \in st..(st + k - 1) : x <= Len(s) /\ s[x] = "_"
           /\ PiiAt(s, st + k)
           /\ J # {}
        THEN [found |-> TRUE, uid |-> SubSeq(s, j0 + 1, d),
              end |-> IF u > d + 2 THEN d + 2 ELSE u]
        ELSE [found |-> FALSE, uid |-> <<>>, end |-> 0]

\* the match of generic_pattern that starts at index st of s
GenericMatchAt(s, st) ==
    IF GenericMatchWith(s, st, 2).found THEN GenericMatchWith(s, st, 2)
    ELSE IF GenericMatchWith(s, st, 1).found THEN GenericMatchWith(s, st, 1)
    ELSE GenericMatchWith(s, st, 0)

\* replace_generic(m): the value of the id, or the match itself
replace_generic(ids, uid, group0) == IF uid \in DOMAIN ids THEN ids[uid] ELSE group0

\* restore(), second pass (B): generic_pattern.sub(replace_generic, restored)
RECURSIVE variant_fix(_, _, _)
variant_fix(s, ids, i) ==
    IF i > Len(s) THEN <<>>
    ELSE LET m == GenericMatchAt(s, i) IN
         IF m.found
         THEN replace_generic(ids, m.uid, SubSeq(s, i, m.end)) \o variant_fix(s, ids, m.end + 1)
         ELSE <<s[i]>> \o variant_fix(s, ids, i + 1)

\* AnonymizerWrapper.restore(text, placeholders_map); placeholders_map is the
\* sequence of the dict's items in insertion order
restore(text, placeholders_map) ==
    LET after_exact == exact_replacements(placeholders_map, 1, text)
        after_suffix_fix == suffix_fix(placeholders_map, 1, after_exact)
    IN  IF after_suffix_fix.outcome # "ok" THEN after_suffix_fix
        ELSE [outcome |-> "ok",
              value |-> variant_fix(after_suffix_fix.value,
                                    unique_id_to_value(placeholders_map, 1, <<>>), 1)]

\* set_mask_config(mask_config): a dict replaces the configuration, anything else
\* is ignored
set_mask_config(mask_config, is_dict) ==
    /\ _mask_config' = (IF is_dict THEN mask_config ELSE _mask_config)
    /\ lastCall' = [op |-> "set_mask_config", is_dict |-> is_dict, mask_config |-> mask_config]
    /\ UNCHANGED <<libaifwVars, coreVars, in_flight, deinit_threads, instances>>

\* _is_entity_enabled: defaults
defaults ==
    [maskAddress |-> "False", maskEmail |-> "True", maskOrganization |-> "True",
     maskUserName |-> "True", maskPhoneNumber |-> "True", maskBankNumber |-> "True",
     maskPayment |-> "True", maskVerificationCode |-> "True", maskPassword |-> "True",
     maskRandomSeed |-> "True", maskPrivateKey |-> "True", maskUrl |-> "True"]

\* _is_entity_enabled: mapping
mapping ==
    [PHYSICAL_ADDRESS |-> "maskAddress", EMAIL_ADDRESS |-> "maskEmail",
     ORGANIZATION |-> "maskOrganization", PERSON |-> "maskUserName",
     USER_NAME |-> "maskUserName", PHONE_NUMBER |-> "maskPhoneNumber",
     BANK_NUMBER |-> "maskBankNumber", PAYMENT |-> "maskPayment",
     VERIFY_CODE |-> "maskVerificationCode", PASSWORD |-> "maskPassword",
     RANDOM_SEED |-> "maskRandomSeed", PRIVATE_KEY |-> "maskPrivateKey", URL |-> "maskUrl"]

\* "".join(chars)
RECURSIVE Join(_)
Join(chars) == IF chars = <<>> THEN "" ELSE Head(chars) \o Join(Tail(chars))

\* a slip: the mapped flag is looked at before the maskAll override
IsEntityEnabledFlagFirst(entity_type) ==
    LET cfg == _mask_config
        key == DictGet(mapping, Join(upper(Chars(entity_type))))
    IN  IF key # "None" /\ DictGet(cfg, key) \in {"True", "False"} THEN cfg[key] = "True"
        ELSE IF DictGet(cfg, "maskAll") \in {"True", "False"} THEN cfg["maskAll"] = "True"
        ELSE IF key = "None" THEN TRUE
        ELSE defaults[key] = "True"

\* a slip: the flags of the policy are not laid over the defaults
IsEntityEnabledDefaultsOnly(entity_type) ==
    LET cfg == _mask_config
        mask_all == DictGet(cfg, "maskAll")
        key == DictGet(mapping, Join(upper(Chars(entity_type))))
    IN  IF mask_all \in {"True", "False"} THEN mask_all = "True"
        ELSE IF key = "None" THEN TRUE
        ELSE defaults[key] = "True"

\* _is_entity_enabled(entity_type) under the current _mask_config
_is_entity_enabled(entity_type) ==
    LET cfg == _mask_config
        mask_all == DictGet(cfg, "maskAll")
        effective == [k \in DOMAIN defaults |->
                         IF DictGet(cfg, k) \in {"True", "False"} THEN cfg[k] ELSE defaults[k]]
        key == DictGet(mapping, Join(upper(Chars(entity_type))))
    IN  IF mask_all \in {"True", "False"} THEN mask_all = "True"
        ELSE IF key = "None" THEN TRUE
        ELSE effective[key] = "True"

\* [r for r in results if self._is_entity_enabled(r.entity_type)]
RECURSIVE FilterEnabled(_)
FilterEnabled(results) ==
    IF results = <<>> THEN <<>>
    ELSE (IF _is_entity_enabled(Head(results).entity_type) THEN <<Head(results)>> ELSE <<>>)
            \o FilterEnabled(Tail(results))

\* a slip: the longer span goes first, whatever the scores
PriorityKeyLengthFirst(r) == <<0 - (r.end - r.start), 0 - r.score, r.start>>

\* anonymize: priority_key(r)
priority_key(r) == <<0 - r.score, 0 - (r.end - r.start), r.start>>

\* a < b for two tuples of numbers of one length
TupleLess(a, b) ==
    \E k \in 1..Len(a) : a[k] < b[k] /\ \A n \in 1..(k - 1) : a[n] = b[n]

\* anonymize: overlaps(a, b)
overlaps(a, b) == ~(a.end <= b.start \/ b.end <= a.start)

\* sorted(seq, key=...), keys[i] being the key of seq[i]: ascending keys, equal
\* keys in the order of seq
sorted(seq, keys) ==
    LET rank(i) == 1 + Cardinality({j \in 1..Len(seq) :
                          \/ TupleLess(keys[j], keys[i])
                          \/ keys[j] = keys[i] /\ j < i})
    IN  [k \in 1..Len(seq) |-> seq[CHOOSE i \in 1..Len(seq) : rank(i) = k]]

\* anonymize: the candidates, best first, that overlap nothing selected before them
RECURSIVE select(_, _, _)
select(cands, i, selected) ==
    IF i > Len(cands) THEN selected
    ELSE select(cands, i + 1,
                IF \A k \in 1..Len(selected) : ~overlaps(cands[i], selected[k])
                THEN Append(selected, cands[i]) ELSE selected)

\* f"{counter}"
RECURSIVE DecStr(_)
DecStr(n) ==
    IF n < 10 THEN <<DigitChars[n + 1]>> ELSE DecStr(n \div 10) \o <<DigitChars[(n % 10) + 1]>>

\* anonymize: the placeholder of the counter-th selected span, left to right
placeholder(r, counter) ==
    Chars("__PII_") \o Chars(r.entity_type) \o <<"_">> \o DecStr(counter) \o <<"_", "_">>

\* a slip: the counter runs over the spans in the order they were selected
AssignedInSelectionOrder(selected) ==
    [k \in 1..Len(selected) |-> [r |-> selected[k], start |-> selected[k].start,
                                 placeholder |-> placeholder(selected[k], k)]]

\* anonymize: assigned
assigned(selected) ==
    LET by_start == sorted(selected, [i \in 1..Len(selected) |-> <<selected[i].start>>])
    IN  [k \in 1..Len(by_start) |-> [r |-> by_start[k], start |-> by_start[k].start,
                                     placeholder |-> placeholder(by_start[k], k)]]

\* anonymize: the replacements, right to left, each at the offsets of its span
RECURSIVE replace_from_end(_, _, _, _, _)
replace_from_end(text, todo, i, placeholders, new_text) ==
    IF i > Len(todo) THEN [text |-> new_text, placeholdersMap |-> placeholders]
    ELSE LET r == todo[i].r IN
         replace_from_end(text, todo, i + 1,
             Append(placeholders, <<todo[i].placeholder, PySlice(text, r.start, r.end)>>),
             PySlice(new_text, 0, r.start) \o todo[i].placeholder
                 \o PySlice(new_text, r.end, Len(new_text)))

\* anonymize after the maskConfig filtering: enabled is the filtered list of results
replace_selected(text, enabled) ==
    LET by_priority == sorted(enabled, [i \in 1..Len(enabled) |-> priority_key(enabled[i])])
        todo == assigned(select(by_priority, 1, <<>>))
        from_end == sorted(todo, [i \in 1..Len(todo) |-> <<0 - todo[i].start>>])
    IN  replace_from_end(text, from_end, 1, <<>>, text)

\* AnonymizerWrapper.anonymize(text) without operators; results is what the
\* analyzer reports for text
anonymize(text, results) == replace_selected(text, FilterEnabled(results))

(***************************************************************************)
(* Calls of the AnonymizerWrapper, next to an untouched libaifw.           *)
(*  - SpecPolicy  : set_mask_config and _is_entity_enabled on a fresh      *)
(*                  wrapper                                                *)
(*  - SpecAnon    : anonymize followed by restore of what anonymize        *)
(*                  returned, for a text, a list of analyzer results and a *)
(*                  policy drawn by the initial state                      *)
(*  - SpecRestore : restore, for a text and a mapping drawn by the initial *)
(*                  state                                                  *)
(***************************************************************************)
MaxTextChunks == 2      \* chunks of the text given to anonymize
MaxSpans == 2           \* spans the analyzer reports on one text
MaxRestoreChunks == 2   \* chunks of the text given to restore
MaxMapEntries == 1      \* entries of the mapping given to restore

\* the flags a policy of SpecPolicy sets, and their values ("yes" is not a bool)
PolicyFlags == {"maskAll", "maskEmail", "maskAddress"}

PolicyConfigs == UNION {[S -> {"True", "False", "yes"}] : S \in SUBSET PolicyFlags}

\* entity types: mapped ones, one written in lower case, and an unknown one
EntityTypes == {"EMAIL_ADDRESS", "PHYSICAL_ADDRESS", "person", "ID"}

\* a caller asks _is_entity_enabled(entity_type)
is_entity_enabled(entity_type) ==
    /\ lastCall' = [op |-> "_is_entity_enabled", entity_type |-> entity_type,
                    result |-> _is_entity_enabled(entity_type)]
    /\ UNCHANGED <<libaifwVars, coreVars, wrapperVars, instances>>

NextPolicy ==
    \/ \E mask_config \in PolicyConfigs : set_mask_config(mask_config, TRUE)
    \/ set_mask_config("None", FALSE)
    \/ \E entity_type \in EntityTypes : is_entity_enabled(entity_type)

SpecPolicy == Init /\ [][NextPolicy]_vars

\* the texts of SpecAnon are made of these chunks; the analyzer reports spans that
\* cover whole chunks
TextChunks == {Chars("a"), Chars("\\"), Chars("1__"), Chars("PII_1")}

RECURSIVE Flatten(_)
Flatten(chunks) == IF chunks = <<>> THEN <<>> ELSE Head(chunks) \o Flatten(Tail(chunks))

\* what the analyzer says of a span besides its offsets
DetectorKinds ==
    {[entity_type |-> "EMAIL_ADDRESS", score |-> 2], [entity_type |-> "ID", score |-> 1]}

\* the spans the analyzer can report on the text made of chunks
SpansOf(chunks) ==
    {[entity_type |-> k.entity_type, score |-> k.score,
      start |-> Len(Flatten(SubSeq(chunks, 1, ij[1] - 1))),
      end |-> Len(Flatten(SubSeq(chunks, 1, ij[2])))] :
        ij \in {p \in (1..Len(chunks)) \X (1..Len(chunks)) : p[1] <= p[2]},
        k \in DetectorKinds}

\* the policies set in SpecAnon
AnonConfigs == {<<>>, [maskEmail |-> "False"]}

\* anonymize(text) for the analyzer's results, then restore of the masked text with
\* the placeholdersMap anonymize returned
anonymize_restore ==
    /\ lastCall.op = "input"
    /\ LET text == Flatten(lastCall.chunks)
           anon == anonymize(text, lastCall.results)
           back == restore(anon.text, anon.placeholdersMap)
       IN  lastCall' = [op |-> "anonymize_restore", text |-> text,
                        results |-> lastCall.results,
                        masked |-> anon.text, placeholdersMap |-> anon.placeholdersMap,
                        outcome |-> back.outcome, restored |-> back.value]
    /\ UNCHANGED <<libaifwVars, coreVars, wrapperVars, instances>>

\* a wrapper whose policy was set, a text and what the analyzer reports on it
InitAnon ==
    /\ Fresh
    /\ in_flight = NoCall
    /\ deinit_threads = NoThreads
    /\ instances = <<>>
    /\ _mask_config \in AnonConfigs
    /\ \E chunks \in SeqsUpTo(TextChunks, MaxTextChunks) :
          \E results \in SeqsUpTo(SpansOf(chunks), MaxSpans) :
             lastCall = [op |-> "input", chunks |-> chunks, results |-> results]

NextAnon == anonymize_restore

SpecAnon == InitAnon /\ [][NextAnon]_vars

\* the texts given to restore are made of these chunks: placeholders with a decimal
\* and with a hexadecimal id, each also without its underscores, a placeholder of an
\* id no mapping of the model knows, an original value, leaked id suffixes, and
\* plain text
RestoreChunks ==
    {Chars("__PII_ID_12__"), Chars("__PII_ID_0b__"), Chars("PII_ID_12"), Chars("PII_ID_0b"),
     Chars("__PII_ID_7__"), Chars("a.b"), Chars("12__"), Chars("0b__"), Chars("x ")}

MapTokens == {Chars("__PII_ID_12__"), Chars("__PII_ID_0b__")}

MapValues == {Chars("a.b"), Chars("c:\\q")}

\* the mappings given to restore: dicts, so no token twice
PlaceholderMaps ==
    {m \in SeqsUpTo(MapTokens \X MapValues, MaxMapEntries) :
        \A i, j \in 1..Len(m) : i # j => m[i][1] # m[j][1]}

\* restore(text, placeholders_map) called on its own
call_restore ==
    /\ lastCall.op = "input"
    /\ LET text == Flatten(lastCall.chunks)
           back == restore(text, lastCall.placeholders_map)
       IN  lastCall' = [op |-> "restore", chunks |-> lastCall.chunks, text |-> text,
                        placeholders_map |-> lastCall.placeholders_map,
                        outcome |-> back.outcome, restored |-> back.value]
    /\ UNCHANGED <<libaifwVars, coreVars, wrapperVars, instances>>

\* a fresh wrapper, a text and a mapping
InitRestore ==
    /\ Fresh
    /\ in_flight = NoCall
    /\ deinit_threads = NoThreads
    /\ instances = <<>>
    /\ _mask_config = <<>>
    /\ \E chunks \in SeqsUpTo(RestoreChunks, MaxRestoreChunks) :
          \E placeholders_map \in PlaceholderMaps :
             lastCall = [op |-> "input", chunks |-> chunks,
                         placeholders_map |-> placeholders_map]

NextRestore == call_restore

SpecRestore == InitRestore /\ [][NextRestore]_vars

(***************************************************************************)
(* AnonymizerWrapper.anonymize with the analyzer it was constructed with.  *)
(*  - SpecMask : anonymize for a text, a language and what the analyzer    *)
(*               does on the first call and on the retry, drawn by the     *)
(*               initial state                                             *)
(***************************************************************************)
MaxMaskChunks == 3   \* chunks of the text given to anonymize in SpecMask
MaxMaskSpans == 2    \* spans the analyzer reports on one text in SpecMask

\* anonymize: selected, the spans that get replaced
selected(results) ==
    LET enabled == FilterEnabled(results)
    IN  select(sorted(enabled, [i \in 1..Len(enabled) |-> priority_key(enabled[i])]), 1, <<>>)

\* analyzer_wrapper.analyze raised
Raised == [raises |-> TRUE, results |-> <<>>]

\* analyzer_wrapper.analyze returned results
Returned(results) == [raises |-> FALSE, results |-> results]

\* anonymize(text, language=language): analyze[1] is what analyzer_wrapper.analyze
\* does when called for language, analyze[2] what it does when called again for
\* "en"; an exception of the second call is not caught
anonymize_analyzing(text, language, analyze) ==
    IF ~analyze[1].raises
    THEN [outcome |-> "ok", analyze_calls |-> <<language>>,
          selected |-> selected(analyze[1].results),
          result |-> anonymize(text, analyze[1].results)]
    ELSE IF ~analyze[2].raises
    THEN [outcome |-> "ok", analyze_calls |-> <<language, "en">>,
          selected |-> selected(analyze[2].results),
          result |-> anonymize(text, analyze[2].results)]
    ELSE [outcome |-> "Exception", analyze_calls |-> <<language, "en">>,
          selected |-> <<>>, result |-> [text |-> <<>>, placeholdersMap |-> <<>>]]

\* the texts of SpecMask are made of these chunks: plain text and the two halves
\* of a placeholder token
MaskChunks == {Chars("a "), Chars("__PII_ID"), Chars("_1__")}

\* the spans the analyzer can report on the text made of chunks: e-mail addresses
\* covering whole chunks
MaskSpansOf(chunks) ==
    {[entity_type |-> "EMAIL_ADDRESS", score |-> 1,
      start |-> Len(Flatten(SubSeq(chunks, 1, ij[1] - 1))),
      end |-> Len(Flatten(SubSeq(chunks, 1, ij[2])))] :
        ij \in {p \in (1..Len(chunks)) \X (1..Len(chunks)) : p[1] <= p[2]}}

call_anonymize ==
    /\ lastCall.op = "input"
    /\ LET text == Flatten(lastCall.chunks)
           r == anonymize_analyzing(text, lastCall.language, lastCall.analyze)
       IN  lastCall' = [op |-> "anonymize", text |-> text, language |-> lastCall.language,
                        analyze |-> lastCall.analyze, analyze_calls |-> r.analyze_calls,
                        outcome |-> r.outcome, selected |-> r.selected,
                        masked |-> r.result.text,
                        placeholdersMap |-> r.result.placeholdersMap]
    /\ UNCHANGED <<libaifwVars, coreVars, wrapperVars, instances>>

\* a wrapper with the default policy, a text, a language and an analyzer that
\* returns, or raises and on the retry returns or raises again
InitMask ==
    /\ Fresh
    /\ in_flight = NoCall
    /\ deinit_threads = NoThreads
    /\ instances = <<>>
    /\ _mask_config = <<>>
    /\ \E chunks \in SeqsUpTo(MaskChunks, MaxMaskChunks), language \in {"en", "zh"} :
          \E results \in SeqsUpTo(MaskSpansOf(chunks), MaxMaskSpans) :
             \E analyze \in {<<Returned(results), Raised>>, <<Raised, Returned(results)>>,
                              <<Raised, Raised>>} :
                lastCall = [op |-> "input", chunks |-> chunks, language |-> language,
                            analyze |-> analyze]

NextMask == call_anonymize

SpecMask == InitMask /\ [][NextMask]_vars

(***************************************************************************)
(* AnonymizerWrapper.anonymize running in one thread while another thread  *)
(* calls set_mask_config: the wrapper has no lock, and the interpreter can *)
(* switch threads between two calls of _is_entity_enabled.                 *)
(*  - SpecConcurrent : one anonymize call at a time, step by step, next to *)
(*                     set_mask_config calls                               *)
(***************************************************************************)
\* the text of the in-flight call and what the analyzer reports on it
ConcurrentText == Chars("ab")

ConcurrentResults ==
    SeqsUpTo({[entity_type |-> "EMAIL_ADDRESS", score |-> 1, start |-> 0, end |-> 1],
              [entity_type |-> "PHYSICAL_ADDRESS", score |-> 1, start |-> 1, end |-> 2]},
             MaxSpans)

\* the policies the other thread sets
ConcurrentConfigs ==
    {<<>>, [maskEmail |-> "False"], [maskEmail |-> "False", maskAddress |-> "True"]}

\* anonymize up to the list comprehension: the analyzer has returned results
anonymize_begin(results) ==
    /\ in_flight = NoCall
    /\ in_flight' = [results |-> results, i |-> 1, kept |-> <<>>, cfgs |-> {_mask_config}]
    /\ lastCall' = [op |-> "anonymize_begin", results |-> results]
    /\ UNCHANGED <<libaifwVars, coreVars, _mask_config, deinit_threads, instances>>

\* one turn of the list comprehension: _is_entity_enabled reads self._mask_config
\* and decides for the next result
anonymize_filter ==
    /\ in_flight # NoCall
    /\ in_flight.i <= Len(in_flight.results)
    /\ in_flight' =
          [in_flight EXCEPT
              !.i = @ + 1,
              !.kept = IF _is_entity_enabled(in_flight.results[in_flight.i].entity_type)
                       THEN Append(@, in_flight.results[in_flight.i]) ELSE @,
              !.cfgs = @ \cup {_mask_config}]
    /\ lastCall' = [op |-> "anonymize_filter", results |-> in_flight.results]
    /\ UNCHANGED <<libaifwVars, coreVars, _mask_config, deinit_threads, instances>>

\* the rest of anonymize: the placeholders for the results that were kept
anonymize_end ==
    /\ in_flight # NoCall
    /\ in_flight.i > Len(in_flight.results)
    /\ LET r == replace_selected(ConcurrentText, in_flight.kept)
       IN  lastCall' = [op |-> "anonymize", text |-> ConcurrentText,
                        results |-> in_flight.results, kept |-> in_flight.kept,
                        cfgs |-> in_flight.cfgs, masked |-> r.text,
                        placeholdersMap |-> r.placeholdersMap]
    /\ in_flight' = NoCall
    /\ UNCHANGED <<libaifwVars, coreVars, _mask_config, deinit_threads, instances>>

NextConcurrent ==
    \/ \E results \in ConcurrentResults : anonymize_begin(results)
    \/ anonymize_filter
    \/ anonymize_end
    \/ \E mask_config \in ConcurrentConfigs : set_mask_config(mask_config, TRUE)

SpecConcurrent == Init /\ [][NextConcurrent]_vars

(***************************************************************************)
(* py-origin services/app/one_aifw_api.py: OneAIFWAPI over its             *)
(* AnonymizerWrapper.  An argument of any Python type is a record with the *)
(* name of its type and its value: a dict or a list as before, the text of *)
(* a str in a field of its own, nothing for None.                          *)
(*  - SpecApi : config, restore_text and _is_entity_enabled on the         *)
(*              instance the module constructs                             *)
(***************************************************************************)
PyDict(d) == [type |-> "dict", value |-> d]

PyNone == [type |-> "NoneType", value |-> <<>>]

PyStr(s) == [type |-> "str", value |-> [str |-> s]]

\* bool(x) of a dict, a list, a str or None
Truthy(x) ==
    IF x.type = "NoneType" THEN FALSE
    ELSE IF x.type = "str" THEN x.value.str # ""
    ELSE DOMAIN x.value # {}

\* x or {}
OrEmptyDict(x) == IF Truthy(x) THEN x ELSE PyDict(<<>>)

\* OneAIFWAPI.config(mask_config): set_mask_config(mask_config or {}); nothing in
\* it raises, so the except branch is never taken
OneAIFWAPI_config(mask_config) ==
    /\ _mask_config' = (IF OrEmptyDict(mask_config).type = "dict"
                        THEN OrEmptyDict(mask_config).value ELSE _mask_config)
    /\ lastCall' = [op |-> "OneAIFWAPI.config", outcome |-> "ok", mask_config |-> mask_config]
    /\ UNCHANGED <<libaifwVars, coreVars, in_flight, deinit_threads, instances>>

\* a slip: any JSON value that was decoded is taken for the mapping
PlaceholdersMapUnchecked(mask_meta) ==
    IF ~mask_meta.is_bytes /\ mask_meta.b64decode = "binascii.Error" THEN <<>>
    ELSE IF mask_meta.decode = "UnicodeDecodeError" THEN <<>>
    ELSE IF mask_meta.loads = "JSONDecodeError" THEN <<>>
    ELSE mask_meta.items

\* restore_text: the placeholders_map decoded from mask_meta. mask_meta is given by
\* what each decoding step makes of it: base64.b64decode (skipped for bytes),
\* bytes.decode("utf-8") and json.loads raise or return, loads names the type of the
\* JSON value and items holds the pairs of a JSON object or array
placeholders_map_of(mask_meta) ==
    IF ~mask_meta.is_bytes /\ mask_meta.b64decode = "binascii.Error" THEN <<>>
    ELSE IF mask_meta.decode = "UnicodeDecodeError" THEN <<>>
    ELSE IF mask_meta.loads = "JSONDecodeError" THEN <<>>
    ELSE IF mask_meta.loads # "dict" THEN <<>>
    ELSE mask_meta.items

\* OneAIFWAPI.restore_text(text, mask_meta)
OneAIFWAPI_restore_text(text, mask_meta) ==
    /\ LET back == restore(text, placeholders_map_of(mask_meta))
       IN  lastCall' = [op |-> "OneAIFWAPI.restore_text", text |-> text,
                        mask_meta |-> mask_meta, outcome |-> back.outcome,
                        restored |-> back.value]
    /\ UNCHANGED <<libaifwVars, coreVars, wrapperVars, instances>>

\* the flags a policy of SpecApi sets
ApiFlags == {"maskAll", "maskEmail"}

\* the arguments given to config: dicts with boolean and other values, None, an
\* empty list and a string
ApiConfigArgs ==
    {PyDict(d) : d \in UNION {[S -> {"True", "False", "yes"}] : S \in SUBSET ApiFlags}}
        \cup {PyNone, [type |-> "list", value |-> <<>>], PyStr("abc")}

MaskMeta(is_bytes, b64decode, decode, loads, items) ==
    [is_bytes |-> is_bytes, b64decode |-> b64decode, decode |-> decode, loads |-> loads,
     items |-> items]

\* the metadata given to restore_text: a str and bytes holding a JSON object, and
\* bad base64, bad UTF-8, bad JSON, a JSON array of pairs, a JSON string and null
MaskMetas ==
    {MaskMeta(FALSE, "bytes", "str", "dict", <<<<Chars("__PII_ID_12__"), Chars("a.b")>>>>),
     MaskMeta(TRUE, "bytes", "str", "dict", <<<<Chars("__PII_ID_12__"), Chars("a.b")>>>>),
     MaskMeta(FALSE, "binascii.Error", "str", "dict", <<<<Chars("__PII_ID_12__"), Chars("a.b")>>>>),
     MaskMeta(FALSE, "bytes", "UnicodeDecodeError", "dict", <<>>),
     MaskMeta(TRUE, "bytes", "UnicodeDecodeError", "dict", <<>>),
     MaskMeta(FALSE, "bytes", "str", "JSONDecodeError", <<>>),
     MaskMeta(FALSE, "bytes", "str", "list", <<<<Chars("__PII_ID_12__"), Chars("a.b")>>>>),
     MaskMeta(FALSE, "bytes", "str", "str", <<>>),
     MaskMeta(FALSE, "bytes", "str", "NoneType", <<>>)}

\* the texts given to restore_text
ApiTexts ==
    {<<>>, Chars("x "), Chars("__PII_ID_12__ x"), Chars("PII_ID_12 a.b12__"),
     Chars("__PII_ID_7__")}

NextApi ==
    \/ \E mask_config \in ApiConfigArgs : OneAIFWAPI_config(mask_config)
    \/ \E text \in ApiTexts, mask_meta \in MaskMetas : OneAIFWAPI_restore_text(text, mask_meta)
    \/ \E entity_type \in EntityTypes : is_entity_enabled(entity_type)

\* api = OneAIFWAPI(): __init__ has called config({})
SpecApi == Init /\ [][NextApi]_vars

(***************************************************************************)
(* cli/python/services/app/one_aifw_api.py: OneAIFWAPI instances over the  *)
(* one libaifw module of the process.                                      *)
(*  - SpecInstances : instances are constructed, used and deleted; the     *)
(*                    shared library is found and the core hands out a     *)
(*                    session whenever init asks for one                   *)
(***************************************************************************)
MaxInstances == 2    \* OneAIFWAPI instances alive at once

\* OneAIFWAPI.__init__: self._aifw.init()
OneAIFWAPI_init(self) ==
    /\ self \notin DOMAIN instances
    /\ init(<<>>, TRUE, TRUE)
    /\ instances' = [i \in DOMAIN instances \cup {self} |->
                        IF i = self THEN <<>> ELSE instances[i]]

\* OneAIFWAPI.__del__: self._aifw.deinit()
OneAIFWAPI_del(self) ==
    /\ self \in DOMAIN instances
    /\ deinit
    /\ instances' = [i \in DOMAIN instances \ {self} |-> instances[i]]

\* cli OneAIFWAPI.config(mask_config): nothing for a value that is no dict, else
\* libaifw.config, whose exception is swallowed
OneAIFWAPI_cli_config(self, mask_config) ==
    /\ self \in DOMAIN instances
    /\ IF mask_config.type # "dict"
       THEN /\ lastCall' = Call("config", "ok", <<>>, <<>>, <<>>, <<>>)
            /\ UNCHANGED <<libaifwVars, coreVars, wrapperVars, instances>>
       ELSE /\ config(mask_config.value)
            /\ instances' = [instances EXCEPT ![self] = mask_config.value]

\* cli OneAIFWAPI.mask_text(text, language): libaifw.mask_text
OneAIFWAPI_cli_mask_text(self, item) ==
    /\ self \in DOMAIN instances
    /\ mask_text(item)
    /\ UNCHANGED instances

\* cli OneAIFWAPI.restore_text(text, mask_meta): libaifw.restore_text with the
\* decoded bytes
OneAIFWAPI_cli_restore_text(self, item) ==
    /\ self \in DOMAIN instances
    /\ restore_text(item)
    /\ UNCHANGED instances

\* the policies an owner of an instance configures
CliConfigArgs == {PyDict(<<>>), PyDict([maskEmail |-> "False"]), PyNone}

NextInstances ==
    \/ \E self \in 1..MaxInstances : OneAIFWAPI_init(self)
    \/ \E self \in 1..MaxInstances : OneAIFWAPI_del(self)
    \/ \E self \in 1..MaxInstances, mask_config \in CliConfigArgs :
          OneAIFWAPI_cli_config(self, mask_config)
    \/ \E self \in 1..MaxInstances, item \in MaskItems : OneAIFWAPI_cli_mask_text(self, item)
    \/ \E self \in 1..MaxInstances, item \in {i \in RestoreItems : i.maskMeta # "None"} :
          OneAIFWAPI_cli_restore_text(self, item)

SpecInstances == Init /\ [][NextInstances]_vars

(***************************************************************************)
(*  - SpecResolve : anonymize of one fixed text under a policy and a list  *)
(*                  of analyzer results that overlap, with different       *)
(*                  scores (in tenths) and lengths                         *)
(***************************************************************************)
MaxCandidates == 3   \* results the analyzer reports on the text in SpecResolve

\* the text given to anonymize in SpecResolve
ResolveText == Chars("abcdefghij")

\* the results the analyzer can report on ResolveText
ResolveCandidates ==
    {[entity_type |-> c[1], start |-> c[2], end |-> c[3], score |-> score] :
        c \in {<<"EMAIL_ADDRESS", 0, 5>>, <<"PHYSICAL_ADDRESS", 0, 10>>,
               <<"EMAIL_ADDRESS", 5, 10>>, <<"PHYSICAL_ADDRESS", 3, 7>>},
        score \in {6, 9}}

\* the policies of SpecResolve: the default one (addresses are not masked) and one
\* that masks addresses too
ResolvePolicies == {<<>>, [maskAddress |-> "True"]}

\* a wrapper whose policy was set, the text and what the analyzer returns for it
InitResolve ==
    /\ Fresh
    /\ in_flight = NoCall
    /\ deinit_threads = NoThreads
    /\ instances = <<>>
    /\ _mask_config \in ResolvePolicies
    /\ \E results \in SeqsUpTo(ResolveCandidates, MaxCandidates) :
          lastCall = [op |-> "input", chunks |-> <<ResolveText>>, language |-> "en",
                      analyze |-> <<Returned(results), Raised>>]

SpecResolve == InitResolve /\ [][NextMask]_vars

(***************************************************************************)
(* libaifw.deinit called from more than one thread.  A thread can be       *)
(* scheduled between a read of a module global and a later statement, and  *)
(* ctypes releases the interpreter lock for the time of a core call.       *)
(*  - SpecRace : a session is opened; NumThreads threads call deinit, each *)
(*               call taking the steps below                               *)
(***************************************************************************)
\* _destroy_session: h = _SESSION_HANDLE
deinit_read_handle(t) ==
    /\ deinit_threads[t].pc = "idle"
    /\ deinit_threads' = [deinit_threads EXCEPT
                             ![t] = [pc |-> "destroy", h |-> _SESSION_HANDLE, calls |-> <<>>]]
    /\ UNCHANGED <<libaifwVars, coreVars, lastCall, _mask_config, in_flight, instances>>

\* _destroy_session: aifw_session_destroy(h) for a handle that is not null, and
\* the finally clause
deinit_destroy(t) ==
    /\ deinit_threads[t].pc = "destroy"
    /\ IF deinit_threads[t].h # 0
       THEN aifw_session_destroy(deinit_threads[t].h)
       ELSE UNCHANGED <<coreSessions, coreDestroyed>>
    /\ _SESSION_HANDLE' = 0
    /\ deinit_threads' = [deinit_threads EXCEPT
                             ![t].pc = "check",
                             ![t].calls = IF deinit_threads[t].h # 0
                                          THEN <<"aifw_session_destroy">> ELSE <<>>]
    /\ UNCHANGED <<_SESSION_OPEN, _CORE, _CORE_SHUTDOWN_CALLED, _NER_EN, _NER_ZH,
                   coreShutdowns, lastCall, _mask_config, in_flight, instances>>

\* deinit: if _CORE_SHUTDOWN_CALLED ... elif _CORE
deinit_check_shutdown(t) ==
    /\ deinit_threads[t].pc = "check"
    /\ deinit_threads' = [deinit_threads EXCEPT
                             ![t].pc = IF deinit_shuts_down THEN "shutdown" ELSE "reset"]
    /\ UNCHANGED <<libaifwVars, coreVars, lastCall, _mask_config, in_flight, instances>>

\* deinit: _CORE.aifw_shutdown() and _CORE_SHUTDOWN_CALLED = True
deinit_shutdown(t) ==
    /\ deinit_threads[t].pc = "shutdown"
    /\ coreShutdowns' = coreShutdowns + 1
    /\ _CORE_SHUTDOWN_CALLED' = TRUE
    /\ deinit_threads' = [deinit_threads EXCEPT
                             ![t].pc = "reset",
                             ![t].calls = Append(@, "aifw_shutdown")]
    /\ UNCHANGED <<_SESSION_OPEN, _CORE, _SESSION_HANDLE, _NER_EN, _NER_ZH, coreSessions,
                   coreDestroyed, lastCall, _mask_config, in_flight, instances>>

\* deinit: the globals are reset and the call returns
deinit_reset(t) ==
    /\ deinit_threads[t].pc = "reset"
    /\ _SESSION_HANDLE' = 0
    /\ _NER_EN' = "None"
    /\ _NER_ZH' = "None"
    /\ _SESSION_OPEN' = FALSE
    /\ lastCall' = Call("deinit", "ok", deinit_threads[t].calls, <<>>, <<>>, <<>>)
    /\ deinit_threads' = [deinit_threads EXCEPT ![t] = NoThreads[t]]
    /\ UNCHANGED <<_CORE, _CORE_SHUTDOWN_CALLED, coreVars, _mask_config, in_flight, instances>>

NextRace ==
    \/ \E mask_cfg \in InitConfigs :
          /\ deinit_threads = NoThreads
          /\ init(mask_cfg, TRUE, TRUE)
          /\ UNCHANGED instances
    \/ \E t \in 1..NumThreads : deinit_read_handle(t)
    \/ \E t \in 1..NumThreads : deinit_destroy(t)
    \/ \E t \in 1..NumThreads : deinit_check_shutdown(t)
    \/ \E t \in 1..NumThreads : deinit_shutdown(t)
    \/ \E t \in 1..NumThreads : deinit_reset(t)

SpecRace == Init /\ [][NextRace]_vars

(***************************************************************************)
(* cli/python/aifw.py: the config command against the HTTP service of      *)
(* cli/python/services/app/main.py.                                        *)
(*  - SpecCli : the service is started (main.py builds its one OneAIFWAPI) *)
(*              and serves mask and restore requests while config commands *)
(*              are run against it                                         *)
(***************************************************************************)
\* str.strip()
RECURSIVE strip(_)
strip(s) ==
    IF s # <<>> /\ Head(s) = " " THEN strip(Tail(s))
    ELSE IF s # <<>> /\ s[Len(s)] = " " THEN strip(SubSeq(s, 1, Len(s) - 1))
    ELSE s

\* _parse_bool_flag(value) for a value that is not None
_parse_bool_flag(value) ==
    LET v == [i \in 1..Len(strip(value)) |-> Lower(strip(value)[i])] IN
    IF v \in {Chars("1"), Chars("true"), Chars("yes"), Chars("y"), Chars("on")} THEN "True"
    ELSE IF v \in {Chars("0"), Chars("false"), Chars("no"), Chars("n"), Chars("off")}
         THEN "False"
    ELSE "None"

\* cmd_config: raw_flags, the key of mask_cfg and the attribute of args it is read from
raw_flags ==
    [maskAddress |-> "mask_address", maskEmail |-> "mask_email",
     maskOrganization |-> "mask_organization", maskUserName |-> "mask_user_name",
     maskPhoneNumber |-> "mask_phone_number", maskBankNumber |-> "mask_bank_number",
     maskPayment |-> "mask_payment", maskVerificationCode |-> "mask_verification_code",
     maskPassword |-> "mask_password", maskRandomSeed |-> "mask_random_seed",
     maskPrivateKey |-> "mask_private_key", maskUrl |-> "mask_url", maskAll |-> "mask_all"]

\* cmd_config: mask_cfg, the flags of args (the options given on the command line)
\* that parse to a bool
mask_cfg_of(args) ==
    LET given == {k \in DOMAIN raw_flags :
                    raw_flags[k] \in DOMAIN args /\ _parse_bool_flag(args[raw_flags[k]]) # "None"}
    IN  [k \in given |-> _parse_bool_flag(args[raw_flags[k]])]

\* the paths main.py registers a POST handler for
post_routes ==
    {"/api/call", "/api/mask_text", "/api/restore_text", "/api/mask_text_batch",
     "/api/restore_text_batch"}

\* _apply_mask_config_http: "synced" when a POST of /api/config is answered with a
\* 2xx status, "warning" when all thirty attempts fail (no service, or no handler
\* for the path)
_apply_mask_config_http ==
    IF instances # <<>> /\ "/api/config" \in post_routes THEN "synced" ELSE "warning"

\* cmd_config(args): no handler of the service runs for /api/config, so the command
\* changes nothing on the server
cmd_config(args) ==
    /\ lastCall' = Call("cmd_config",
                        IF mask_cfg_of(args) = <<>> THEN "nothing to update"
                        ELSE _apply_mask_config_http,
                        <<>>, mask_cfg_of(args), <<>>, <<>>)
    /\ UNCHANGED <<libaifwVars, coreVars, wrapperVars, instances>>

\* the values given to an option of the config command
CliFlagValues == {Chars("false"), Chars(" TRUE "), Chars("maybe")}

\* the options of the config command the model gives
CliOptions == {"mask_address", "mask_email", "mask_phone_number", "mask_all"}

CliArgs == UNION {[S -> CliFlagValues] : S \in SUBSET CliOptions}

NextCli ==
    \/ OneAIFWAPI_init(1)
    \/ \E args \in CliArgs : cmd_config(args)
    \/ \E item \in MaskItems : OneAIFWAPI_cli_mask_text(1, item)
    \/ \E item \in {i \in RestoreItems : i.maskMeta # "None"} :
          OneAIFWAPI_cli_restore_text(1, item)

SpecCli == Init /\ [][NextCli]_vars

(***************************************************************************)
(* Offsets: the core counts UTF-8 bytes, Python counts characters (code    *)
(* points).  A text is a sequence of characters; the characters outside    *)
(* ASCII are named by their code point.                                    *)
(*  - SpecOffsets : for a text and a span of byte offsets the core         *)
(*                  reports on it, the conversions of get_pii_spans and    *)
(*                  get_pii_entities, and the character-to-byte map of     *)
(*                  _build_ner_entities_buffer                             *)
(***************************************************************************)
MaxOffsetChars == 3   \* characters of a text of SpecOffsets

\* ord(ch) of the characters of SpecOffsets
CodePoint == [a |-> 97, U00E9 |-> 233, U4E2D |-> 20013, U1F600 |-> 128512]

\* the number of bytes of the UTF-8 encoding of the code point cp
utf8_len(cp) ==
    IF cp <= 127 THEN 1 ELSE IF cp <= 2047 THEN 2 ELSE IF cp <= 65535 THEN 3 ELSE 4

\* get_pii_spans: byte_pos after the first n characters of input_text
RECURSIVE byte_pos(_, _)
byte_pos(input_text, n) ==
    IF n = 0 THEN 0
    ELSE byte_pos(input_text, n - 1) + utf8_len(CodePoint[input_text[n]])

\* get_pii_spans: byte_to_char, a list of n_bytes + 1 entries (entry p + 1 of the
\* sequence is byte_to_char[p])
byte_to_char(input_text) ==
    LET n_bytes == byte_pos(input_text, Len(input_text)) IN
    [q \in 1..(n_bytes + 1) |->
        IF q - 1 = n_bytes THEN Len(input_text)
        ELSE IF \E i \in 0..(Len(input_text) - 1) : byte_pos(input_text, i) = q - 1
             THEN CHOOSE i \in 0..(Len(input_text) - 1) : byte_pos(input_text, i) = q - 1
             ELSE 0]

\* a slip: an offset inside a character goes to the character that follows
ByteOffToCharRoundingUp(input_text, off) ==
    LET list == byte_to_char(input_text) IN
    IF off <= 0 THEN 0
    ELSE IF off >= Len(list) THEN Len(input_text)
    ELSE LET idx == CHOOSE j \in off..(Len(list) - 1) :
                       /\ list[j + 1] # 0
                       /\ \A k \in off..(j - 1) : list[k + 1] = 0
         IN  list[idx + 1]

\* get_pii_spans: _byte_off_to_char(off); idx is where the while loop stops
_byte_off_to_char(input_text, off) ==
    LET list == byte_to_char(input_text) IN
    IF off <= 0 THEN 0
    ELSE IF off >= Len(list) THEN Len(input_text)
    ELSE LET idx == CHOOSE j \in 0..off :
                       /\ j = 0 \/ list[j + 1] # 0
                       /\ \A k \in (j + 1)..off : list[k + 1] = 0
         IN  list[idx + 1]

\* _build_ner_entities_buffer: the while loop of compute_utf8_offset_map from
\* index i on (map is the list mapping; its entry i + 1 is mapping[i])
RECURSIVE utf8_offset_map_from(_, _, _, _)
utf8_offset_map_from(text, i, bpos, map) ==
    IF i < Len(text)
    THEN LET cp == CodePoint[text[i + 1]]
             cu_len == IF cp > 65535 THEN 2 ELSE 1
         IN  utf8_offset_map_from(text, i + cu_len, bpos + utf8_len(cp),
                                  [map EXCEPT ![i + 1] = bpos])
    ELSE [map EXCEPT ![Len(text) + 1] = bpos]

\* _build_ner_entities_buffer: compute_utf8_offset_map(text)
compute_utf8_offset_map(text) ==
    utf8_offset_map_from(text, 0, 0, [i \in 1..(Len(text) + 1) |-> 0])

\* _entity_type_id_to_name(t) for the ids the core reports in SpecOffsets
_entity_type_id_to_name(t) ==
    IF t = 1 THEN "PHYSICAL_ADDRESS" ELSE IF t = 2 THEN "EMAIL_ADDRESS"
    ELSE "TYPE_" \o Join(DecStr(t))

\* get_pii_spans: the MatchedPIISpan made of a span of the core, whose
\* matched_start and matched_end are byte offsets
MatchedPIISpan(input_text, core_span) ==
    [entity_type |-> _entity_type_id_to_name(core_span.entity_type),
     matched_start |-> _byte_off_to_char(input_text, core_span.matched_start),
     matched_end |-> _byte_off_to_char(input_text, core_span.matched_end)]

\* get_pii_entities: the dict made of a span s that get_pii_spans returned; it
\* converts s.matched_start and s.matched_end with its own copy of
\* _byte_off_to_char, which has the same text as the one of get_pii_spans, and
\* then int(s.entity_type) raises for a name that is no decimal literal
get_pii_entity(text, s) ==
    LET start == _byte_off_to_char(text, s.matched_start)
        end == _byte_off_to_char(text, s.matched_end)
    IN  [outcome |-> IF s.entity_type # "" /\ Range(Chars(s.entity_type)) \subseteq Digits
                     THEN "ok" ELSE "ValueError",
         start |-> start, end |-> end, text |-> PySlice(text, start, end)]

\* the span the core reports is converted by get_pii_spans, and what get_pii_spans
\* returns by get_pii_entities
call_get_pii_entities ==
    /\ lastCall.op = "input"
    /\ LET span == MatchedPIISpan(lastCall.text, lastCall.core_span) IN
       lastCall' = [op |-> "get_pii_entities", text |-> lastCall.text,
                    core_span |-> lastCall.core_span, span |-> span,
                    entity |-> get_pii_entity(lastCall.text, span)]
    /\ UNCHANGED <<libaifwVars, coreVars, wrapperVars, instances>>

\* _build_ner_entities_buffer computes the map of the text
call_compute_utf8_offset_map ==
    /\ lastCall.op = "input"
    /\ lastCall' = [op |-> "compute_utf8_offset_map", text |-> lastCall.text,
                    utf8_map |-> compute_utf8_offset_map(lastCall.text)]
    /\ UNCHANGED <<libaifwVars, coreVars, wrapperVars, instances>>

\* a text and a span of it in byte offsets (the core may cut a character)
InitOffsets ==
    /\ Fresh
    /\ _mask_config = <<>>
    /\ in_flight = NoCall
    /\ deinit_threads = NoThreads
    /\ instances = <<>>
    /\ \E text \in SeqsUpTo(DOMAIN CodePoint, MaxOffsetChars) :
          \E b_start, b_end \in 0..byte_pos(text, Len(text)) :
             /\ b_start <= b_end
             /\ lastCall = [op |-> "input", text |-> text,
                            core_span |-> [entity_type |-> 2, matched_start |-> b_start,
                                           matched_end |-> b_end]]

NextOffsets ==
    \/ call_get_pii_entities
    \/ call_compute_utf8_offset_map

SpecOffsets == InitOffsets /\ [][NextOffsets]_vars

(***************************************************************************)
(* libner.py: the character offsets of the tokens of the NER model.        *)
(*  - SpecTokens : compute_offsets_from_tokens for a text and a list of    *)
(*                 tokens                                                  *)
(***************************************************************************)
MaxTokenChars == 3   \* characters of a text of SpecTokens
MaxTokens == 2       \* tokens given with it

\* build_stripped_map: the characters a character of the text leaves in the
\* stripped text (its NFD form without combining marks and connector punctuation)
stripped_chars(ch) ==
    IF ch = "-" THEN <<>> ELSE IF ch = "U00E9" THEN <<"e">> ELSE <<ch>>

\* build_stripped_map(s): the stripped text and, for each of its characters, the
\* index in s of the character it comes from
RECURSIVE build_stripped_map(_)
build_stripped_map(s) ==
    IF s = <<>> THEN [stripped |-> <<>>, map |-> <<>>]
    ELSE LET before == build_stripped_map(SubSeq(s, 1, Len(s) - 1))
             out == stripped_chars(s[Len(s)])
         IN  [stripped |-> before.stripped \o out,
              map |-> before.map \o [k \in 1..Len(out) |-> Len(s) - 1]]

\* strip_accents(s): combining marks go, connector punctuation stays
strip_accents(s) == [k \in 1..Len(s) |-> IF s[k] = "U00E9" THEN "e" ELSE s[k]]

\* str.find(sub, start) for a sub that is not empty
find(s, sub, start) ==
    LET at == {q \in start..(Len(s) - Len(sub)) : SubSeq(s, q + 1, q + Len(sub)) = sub}
    IN  IF at = {} THEN 0 - 1 ELSE CHOOSE q \in at : \A r \in at : q <= r

\* find_stripped_index_at_or_after(mapping, orig_index): the first index whose
\* entry is not below orig_index
find_stripped_index_at_or_after(map, orig_index) ==
    Cardinality({k \in 1..Len(map) : map[k] < orig_index})

\* compute_offsets_from_tokens: the loop from token i on; cursors collects
\* cursor_lower as it is after each token
RECURSIVE offsets_from(_, _, _, _, _, _)
offsets_from(text, tokens, i, cursor_lower, cursor_stripped, done) ==
    IF i > Len(tokens) THEN done
    ELSE
    LET lower_text == [k \in 1..Len(text) |-> Lower(text[k])]
        sm == build_stripped_map(lower_text)
        full == tokens[i]
        raw == IF Len(full) >= 2 /\ SubSeq(full, 1, 2) = <<"#", "#">>
               THEN SubSeq(full, 3, Len(full)) ELSE full
        tok_lower == [k \in 1..Len(raw) |-> Lower(raw[k])]
        p1 == find(lower_text, tok_lower, cursor_lower)
        p == IF p1 = 0 - 1 THEN find(lower_text, tok_lower, 0) ELSE p1
        tok_stripped == strip_accents(tok_lower)
        sp1 == find(sm.stripped, tok_stripped, cursor_stripped)
        sp == IF sp1 = 0 - 1 THEN find(sm.stripped, tok_stripped, 0) ELSE sp1
        after == sp + Len(tok_stripped)
        start_orig == IF sp < Len(sm.map) THEN sm.map[sp + 1] ELSE 0
        end_orig == IF after < Len(sm.map) THEN sm.map[after + 1] ELSE Len(text)
        step(offset, matched, new_lower, new_stripped) ==
            offsets_from(text, tokens, i + 1, new_lower, new_stripped,
                         [offsets |-> Append(done.offsets, offset),
                          matched |-> Append(done.matched, matched),
                          cursors |-> Append(done.cursors, new_lower)])
    IN  IF raw = <<>>
        THEN step(<<cursor_lower, cursor_lower>>, FALSE, cursor_lower, cursor_stripped)
        ELSE IF p # 0 - 1
        THEN step(<<p, p + Len(raw)>>, TRUE, p + Len(raw),
                  find_stripped_index_at_or_after(sm.map, p + Len(raw)))
        ELSE IF tok_stripped # <<>> /\ sp # 0 - 1
        THEN step(<<start_orig, end_orig>>, TRUE, end_orig, after)
        ELSE step(<<cursor_lower, cursor_lower>>, FALSE, cursor_lower, cursor_stripped)

\* compute_offsets_from_tokens(text, tokens)
compute_offsets_from_tokens(text, tokens) ==
    offsets_from(text, tokens, 1, 0, 0, [offsets |-> <<>>, matched |-> <<>>, cursors |-> <<>>])

call_compute_offsets_from_tokens ==
    /\ lastCall.op = "input"
    /\ LET r == compute_offsets_from_tokens(lastCall.text, lastCall.tokens) IN
       lastCall' = [op |-> "compute_offsets_from_tokens", text |-> lastCall.text,
                    tokens |-> lastCall.tokens, offsets |-> r.offsets,
                    matched |-> r.matched, cursors |-> r.cursors]
    /\ UNCHANGED <<libaifwVars, coreVars, wrapperVars, instances>>

\* the characters of the texts, and the tokens: word pieces, one of them a
\* continuation ("##b"), one without its accent, and the empty token
TokenTextChars == {"a", "B", "-", "U00E9"}

TokenSet == {<<>>, <<"a">>, <<"b">>, <<"#", "#", "b">>, <<"e">>, <<"a", "b">>}

InitTokens ==
    /\ Fresh
    /\ _mask_config = <<>>
    /\ in_flight = NoCall
    /\ deinit_threads = NoThreads
    /\ instances = <<>>
    /\ \E text \in SeqsUpTo(TokenTextChars, MaxTokenChars),
          tokens \in SeqsUpTo(TokenSet, MaxTokens) :
          lastCall = [op |-> "input", text |-> text, tokens |-> tokens]

NextTokens == call_compute_offsets_from_tokens

SpecTokens == InitTokens /\ [][NextTokens]_vars

(***************************************************************************)
(* Claims about the AnonymizerWrapper.                                     *)
(***************************************************************************)
\* t holds "PII" in any case, so a `__PII_*__`-shaped substring or a variant of one
PlaceholderShaped(t) == \E p \in 1..Len(t) : PiiAt(t, p)

\* C1: for every text t without a placeholder-shaped substring and every list of
\* spans the analyzer reports on t, restore(anonymize(t).text,
\* anonymize(t).placeholdersMap) returns t.
C1_RoundTrip ==
    (lastCall.op = "anonymize_restore" /\ ~PlaceholderShaped(lastCall.text)) =>
        /\ lastCall.outcome = "ok"
        /\ lastCall.restored = lastCall.text

\* C6: while the policy carries maskAll = false, _is_entity_enabled is false for
\* every entity type, and while it carries maskAll = true it is true for every
\* entity type, whatever the other flags of the policy.
C6_MaskAllOverrides ==
    (lastCall.op = "_is_entity_enabled" /\ DictGet(_mask_config, "maskAll") \in {"True", "False"})
        => (lastCall.result <=> _mask_config["maskAll"] = "True")

\* email masking asked for next to maskAll = false: email addresses are not masked
C6_Witness ==
    /\ lastCall.op = "_is_entity_enabled"
    /\ lastCall.entity_type = "EMAIL_ADDRESS"
    /\ DictGet(_mask_config, "maskAll") = "False"
    /\ DictGet(_mask_config, "maskEmail") = "True"
    /\ ~lastCall.result

\* the unique id of a placeholder-shaped token: what follows its last inner "_"
ShapeUid(token) ==
    LET e == RunEnd(token, 1, {"_"})
        U == {u \in 1..Len(token) : token[u] # "_"}
        last == CHOOSE u \in U : \A x \in U : x <= u
        S == {b \in 1..last : \A k \in b..last : token[k] # "_"}
    IN  IF U = {} THEN <<>> ELSE SubSeq(token, CHOOSE b \in S : \A x \in S : b <= x, last)

\* C9: restore returns a string without raising for every text and every mapping
\* of strings, and every placeholder-shaped token of the text whose id is not in
\* the mapping is in the output unchanged.
C9_RestoreNeverThrows ==
    lastCall.op = "restore" =>
        /\ lastCall.outcome = "ok"
        /\ \A i \in 1..Len(lastCall.chunks) :
              (/\ PlaceholderShaped(lastCall.chunks[i])
               /\ \A k \in 1..Len(lastCall.placeholders_map) :
                     ShapeUid(lastCall.placeholders_map[k][1]) # ShapeUid(lastCall.chunks[i]))
                 => Contains(lastCall.restored, lastCall.chunks[i])

\* C10: for the mapping entry __PII_<TYPE>_<UID>__ -> v, a text in which v is
\* followed by the leaked suffix "<UID>__" is restored with each such occurrence
\* collapsed to v (texts without placeholders, values without backslash).
C10_LeakedSuffixRepaired ==
    (/\ lastCall.op = "restore"
     /\ Len(lastCall.placeholders_map) = 1
     /\ ~PlaceholderShaped(lastCall.text)
     /\ "\\" \notin Range(lastCall.placeholders_map[1][2])) =>
        LET v == lastCall.placeholders_map[1][2]
            leaked == v \o ShapeUid(lastCall.placeholders_map[1][1]) \o <<"_", "_">>
        IN  Contains(lastCall.text, leaked) =>
               /\ lastCall.outcome = "ok"
               /\ lastCall.restored = ReplaceFrom(lastCall.text, leaked, v, 1)

\* a placeholder token with some of its leading and trailing underscores missing
Variants(token) ==
    {SubSeq(token, 1 + lead, Len(token) - trail) :
        lead \in 0..2, trail \in 0..2} \ {token}

\* C11: for the mapping entry __PII_<TYPE>_<UID>__ -> v, a text holding the
\* placeholder with leading or trailing underscores missing, alone or next to plain
\* text, is restored with that token replaced by v (values without backslash).
C11_VariantRepaired ==
    (/\ lastCall.op = "restore"
     /\ Len(lastCall.placeholders_map) = 1
     /\ "\\" \notin Range(lastCall.placeholders_map[1][2])
     /\ Len(lastCall.chunks) \in 1..2
     /\ \E i \in 1..Len(lastCall.chunks) :
           /\ lastCall.chunks[i] \in Variants(lastCall.placeholders_map[1][1])
           /\ \A k \in 1..Len(lastCall.chunks) : k # i => lastCall.chunks[k] = Chars("x ")) =>
        /\ lastCall.outcome = "ok"
        /\ lastCall.restored =
              Flatten([i \in 1..Len(lastCall.chunks) |->
                          IF lastCall.chunks[i] = Chars("x ") THEN lastCall.chunks[i]
                          ELSE lastCall.placeholders_map[1][2]])

\* C12: a text made of placeholders of the mapping and of text that is no
\* placeholder, with no leaked suffix in it, is restored to the same text with each
\* placeholder replaced by its original value and everything else as it was.
C12_ExactSubstitution ==
    (/\ lastCall.op = "restore"
     /\ Len(lastCall.placeholders_map) = 1
     /\ \E i \in 1..Len(lastCall.chunks) : lastCall.chunks[i] = lastCall.placeholders_map[1][1]
     /\ \A i \in 1..Len(lastCall.chunks) :
           \/ lastCall.chunks[i] = lastCall.placeholders_map[1][1]
           \/ ~PlaceholderShaped(lastCall.chunks[i])
     /\ ~Contains(lastCall.text,
                  lastCall.placeholders_map[1][2]
                      \o ShapeUid(lastCall.placeholders_map[1][1]) \o <<"_", "_">>)) =>
        /\ lastCall.outcome = "ok"
        /\ lastCall.restored =
              Flatten([i \in 1..Len(lastCall.chunks) |->
                          IF lastCall.chunks[i] = lastCall.placeholders_map[1][1]
                          THEN lastCall.placeholders_map[1][2]
                          ELSE lastCall.chunks[i]])

\* the metadata cannot be decoded to a JSON object
Undecodable(mask_meta) ==
    \/ ~mask_meta.is_bytes /\ mask_meta.b64decode = "binascii.Error"
    \/ mask_meta.decode = "UnicodeDecodeError"
    \/ mask_meta.loads # "dict"

\* C13: restore_text given metadata that is bad base64, bad UTF-8, bad JSON or JSON
\* that is no object does not raise and returns the input text unchanged.
C13_InvalidMetadataIsEmptyMapping ==
    (lastCall.op = "OneAIFWAPI.restore_text" /\ Undecodable(lastCall.mask_meta)) =>
        /\ lastCall.outcome = "ok"
        /\ lastCall.restored = lastCall.text

\* a text with a placeholder and a variant came back as it was for a JSON array
C13_Witness ==
    /\ lastCall.op = "OneAIFWAPI.restore_text"
    /\ lastCall.mask_meta.loads = "list"
    /\ lastCall.text = Chars("PII_ID_12 a.b12__")
    /\ lastCall.restored = lastCall.text

\* the policy is no dict, or a dict with a flag that is no boolean
InvalidPolicy(mask_config) ==
    \/ mask_config.type # "dict"
    \/ \E k \in DOMAIN mask_config.value : mask_config.value[k] \notin {"True", "False"}

\* C15: config called with an invalid policy raises nothing and leaves
\* _is_entity_enabled as it was for every entity type.
C15_InvalidPolicyRejected ==
    [][(lastCall'.op = "OneAIFWAPI.config" /\ InvalidPolicy(lastCall'.mask_config)) =>
          /\ lastCall'.outcome = "ok"
          /\ \A entity_type \in EntityTypes :
                _is_entity_enabled(entity_type)' = _is_entity_enabled(entity_type)]_vars

\* C14: anonymize never raises when the analyzer does: after a failure for the
\* requested language it calls the analyzer once more, for "en", and if that call
\* raises too it returns the text unchanged with an empty placeholder map.
C14_DetectorFailureNeverFails ==
    lastCall.op = "anonymize" =>
        /\ lastCall.outcome = "ok"
        /\ lastCall.analyze[1].raises => lastCall.analyze_calls = <<lastCall.language, "en">>
        /\ (lastCall.analyze[1].raises /\ lastCall.analyze[2].raises) =>
              /\ lastCall.masked = lastCall.text
              /\ lastCall.placeholdersMap = <<>>

\* the placeholder token the texts of SpecMask can hold
MaskToken == Chars("__PII_ID_1__")

\* C16: when the text given to anonymize holds a placeholder token, no span that
\* anonymize replaces overlaps an occurrence of the token, whatever the analyzer
\* reports.
C16_NoNestedPlaceholders ==
    (lastCall.op = "anonymize" /\ lastCall.outcome = "ok") =>
        \A p \in 1..Len(lastCall.text) :
            OccursAt(lastCall.text, MaskToken, p) =>
                \A k \in 1..Len(lastCall.selected) :
                    \/ lastCall.selected[k].end <= p - 1
                    \/ p - 1 + Len(MaskToken) <= lastCall.selected[k].start

\* C17: while an OneAIFWAPI instance exists the session it uses is ready and
\* carries the policy that instance configured, whatever was done with the other
\* instances, so its mask_text and restore_text do not fail for want of a session.
C17_SessionsIsolated ==
    /\ \A self \in DOMAIN instances :
          /\ _ensure_ready
          /\ coreSessions[_SESSION_HANDLE] = PolicyOf(instances[self])
    /\ lastCall.op \in {"mask_text", "restore_text"} => lastCall.outcome # "NotInitialized"

\* is_enabled of the design for a policy and an entity type: the maskAll override,
\* else the boolean of the type's flag, else the default (false for the address,
\* true for every other mapped type), and true for a type without a flag
IsEnabled(policy, entity_type) ==
    LET flag == DictGet(mapping, Join(upper(Chars(entity_type)))) IN
    IF DictGet(policy, "maskAll") \in {"True", "False"} THEN policy["maskAll"] = "True"
    ELSE IF flag = "None" THEN TRUE
    ELSE IF DictGet(policy, flag) \in {"True", "False"} THEN policy[flag] = "True"
    ELSE flag # "maskAddress"

\* the results of the last anonymize call that the policy lets through: the
\* candidates of the overlap resolution
Candidates ==
    LET results == lastCall.analyze[1].results IN
    {results[i] : i \in {k \in 1..Len(results) :
                            IsEnabled(_mask_config, results[k].entity_type)}}

\* overlap of two spans, as the design defines it
Overlap(a, b) == ~(a.end <= b.start \/ b.end <= a.start)

\* the sort key of the design: (-score, -(end - start), start)
RankKey(r) == <<0 - r.score, 0 - (r.end - r.start), r.start>>

\* C22: the spans anonymize selects are candidates and pairwise non-overlapping; a
\* candidate that is not selected overlaps a selected span whose key
\* (-score, -(end - start), start) is not greater than its own (smaller, or equal
\* for a candidate with the same extent and score); and of the two candidates
\* [0, 5) with score 0.9 and [0, 10) with score 0.6 alone, the first is selected.
C22_OverlapResolution ==
    (lastCall.op = "anonymize" /\ lastCall.outcome = "ok") =>
        LET sel == lastCall.selected IN
        /\ Range(sel) \subseteq Candidates
        /\ \A i, j \in 1..Len(sel) : i # j => ~Overlap(sel[i], sel[j])
        /\ \A c \in Candidates \ Range(sel) :
              \E k \in 1..Len(sel) :
                 /\ Overlap(c, sel[k])
                 /\ TupleLess(RankKey(sel[k]), RankKey(c)) \/ RankKey(sel[k]) = RankKey(c)
        /\ \A short, long \in Candidates :
              (/\ Candidates = {short, long}
               /\ short.start = long.start
               /\ short.end - short.start = 5 /\ short.score = 9
               /\ long.end - long.start = 10 /\ long.score = 6)
                 => Range(sel) = {short}

\* the two candidates of the design's example: the shorter one with the higher
\* score is replaced, the longer one is not
C22_Witness ==
    /\ lastCall.op = "anonymize"
    /\ lastCall.outcome = "ok"
    /\ Candidates = {[entity_type |-> "EMAIL_ADDRESS", start |-> 0, end |-> 5, score |-> 9],
                     [entity_type |-> "PHYSICAL_ADDRESS", start |-> 0, end |-> 10, score |-> 6]}
    /\ lastCall.selected =
          <<[entity_type |-> "EMAIL_ADDRESS", start |-> 0, end |-> 5, score |-> 9]>>
    /\ lastCall.masked = Chars("__PII_EMAIL_ADDRESS_1__fghij")

\* the k-th selected span of the last anonymize call, counted from the left
NthSelected(k) ==
    CHOOSE r \in Range(lastCall.selected) :
        Cardinality({q \in Range(lastCall.selected) : q.start < r.start}) = k - 1

\* the placeholder that carries the UID k for the k-th selected span (k < 10)
NthPlaceholder(k) ==
    Chars("__PII_") \o Chars(NthSelected(k).entity_type) \o <<"_", DigitChars[k + 1], "_", "_">>

\* the text up to the end of the k-th selected span, each of the first k selected
\* spans replaced by its placeholder
RECURSIVE MaskedUpTo(_)
MaskedUpTo(k) ==
    IF k = 0 THEN <<>>
    ELSE MaskedUpTo(k - 1)
            \o SubSeq(lastCall.text, (IF k = 1 THEN 0 ELSE NthSelected(k - 1).end) + 1,
                      NthSelected(k).start)
            \o NthPlaceholder(k)

\* C24: with n spans selected, the masked text is the text with the k-th selected
\* span from the left replaced by the placeholder of UID k, for k = 1..n, and the
\* placeholders map has exactly n entries, the one of UID k mapping that placeholder
\* to the substring of the text the k-th span covered.
C24_UidsLeftToRight ==
    (lastCall.op = "anonymize" /\ lastCall.outcome = "ok") =>
        LET n == Len(lastCall.selected) IN
        /\ lastCall.masked =
              MaskedUpTo(n) \o SubSeq(lastCall.text,
                                      (IF n = 0 THEN 0 ELSE NthSelected(n).end) + 1,
                                      Len(lastCall.text))
        /\ Len(lastCall.placeholdersMap) = n
        /\ Range(lastCall.placeholdersMap) =
              {<<NthPlaceholder(k),
                 SubSeq(lastCall.text, NthSelected(k).start + 1, NthSelected(k).end)>> :
                  k \in 1..n}

\* two spans selected right one first (it has the higher score): the left one
\* carries UID 1
C24_Witness ==
    /\ lastCall.op = "anonymize"
    /\ lastCall.outcome = "ok"
    /\ Len(lastCall.selected) = 2
    /\ lastCall.selected[1].start > lastCall.selected[2].start
    /\ lastCall.masked = Chars("__PII_EMAIL_ADDRESS_1____PII_EMAIL_ADDRESS_2__")
    /\ Range(lastCall.placeholdersMap) =
          {<<Chars("__PII_EMAIL_ADDRESS_1__"), Chars("abcde")>>,
           <<Chars("__PII_EMAIL_ADDRESS_2__"), Chars("fghij")>>}

\* C26: when a result of a disabled entity type overlaps and outranks a result of
\* an enabled type, and no result that overlaps the disabled one outranks it (so
\* the resolver selects it), the result of the enabled type is not replaced.
C26_PolicyAfterResolution ==
    (lastCall.op = "anonymize" /\ lastCall.outcome = "ok") =>
        LET results == Range(lastCall.analyze[1].results) IN
        \A d \in results \ Candidates, e \in Candidates :
            (/\ Overlap(d, e)
             /\ TupleLess(RankKey(d), RankKey(e))
             /\ \A r \in results : Overlap(r, d) => ~TupleLess(RankKey(r), RankKey(d)))
                => e \notin Range(lastCall.selected)

\* the byte offset at which character i of the text starts (the byte length of the
\* text for i = Len(text)): the bytes of the characters before it
RECURSIVE ByteStart(_, _)
ByteStart(text, i) ==
    IF i = 0 THEN 0 ELSE ByteStart(text, i - 1) + utf8_len(CodePoint[text[i]])

\* the index of the character whose encoding holds byte b: the greatest character
\* start that is not beyond b
CharHolding(text, b) ==
    CHOOSE i \in 0..Len(text) :
        /\ ByteStart(text, i) <= b
        /\ \A j \in 0..Len(text) : ByteStart(text, j) <= b => j <= i

\* C23: for a text and byte offsets within 0..byte length, the byte-to-character
\* lookup returns the index of the character whose encoding holds the byte (the
\* greatest character start not beyond it), and len(text) for the offset of the
\* end of the text; never the index of the character that follows.
C23_OffsetClampsDown ==
    lastCall.op = "get_pii_entities" =>
        /\ lastCall.span.matched_start = CharHolding(lastCall.text, lastCall.core_span.matched_start)
        /\ lastCall.span.matched_end = CharHolding(lastCall.text, lastCall.core_span.matched_end)

\* the design's example: in a, a 4-byte emoji, a the byte offset 3 lies inside the
\* emoji and maps to character index 1; the end offset 6 maps to 3
C23_Witness ==
    /\ lastCall.op = "get_pii_entities"
    /\ lastCall.text = <<"a", "U1F600", "a">>
    /\ lastCall.core_span.matched_start = 3
    /\ lastCall.core_span.matched_end = 6
    /\ lastCall.span.matched_start = 1
    /\ lastCall.span.matched_end = 3

\* C27: for every text and character index i in 0..len(text), the
\* character-to-byte map gives the byte offset at which character i starts, and
\* the byte-to-character lookup takes that offset back to i.
C27_CharToByteInverts ==
    lastCall.op = "compute_utf8_offset_map" =>
        \A i \in 0..Len(lastCall.text) :
            /\ lastCall.utf8_map[i + 1] = ByteStart(lastCall.text, i)
            /\ _byte_off_to_char(lastCall.text, lastCall.utf8_map[i + 1]) = i

\* C28: the entity get_pii_entities makes of a span returned by get_pii_spans has
\* the span's matched_start and matched_end as start and end, and the characters
\* of the text between them as text.
C28_EntityKeepsSpanIndices ==
    lastCall.op = "get_pii_entities" =>
        /\ lastCall.entity.outcome = "ok"
        /\ lastCall.entity.start = lastCall.span.matched_start
        /\ lastCall.entity.end = lastCall.span.matched_end
        /\ lastCall.entity.text =
              SubSeq(lastCall.text, lastCall.span.matched_start + 1, lastCall.span.matched_end)

\* C25: in compute_offsets_from_tokens the cursor never decreases from one token to
\* the next, and a matched token ends at or after the end of every token matched
\* before it.
C25_CursorMonotonic ==
    lastCall.op = "compute_offsets_from_tokens" =>
        /\ \A k \in 1..(Len(lastCall.cursors) - 1) : lastCall.cursors[k] <= lastCall.cursors[k + 1]
        /\ \A j, k \in 1..Len(lastCall.offsets) :
              (j < k /\ lastCall.matched[j] /\ lastCall.matched[k])
                 => lastCall.offsets[j][2] <= lastCall.offsets[k][2]

\* C29: however the steps of concurrent deinit calls interleave, no session handle
\* is passed to aifw_session_destroy more than once and aifw_shutdown is called at
\* most once.
C29_RacingTeardownSafe ==
    /\ \A h \in DOMAIN coreDestroyed : coreDestroyed[h] <= 1
    /\ coreShutdowns <= 1

\* C30: once aifw_shutdown has been called, no later call of libaifw calls
\* aifw_session_create or another session function of the core.
C30_NoCoreUseAfterShutdown ==
    [][coreShutdowns >= 1 =>
          \A k \in 1..Len(lastCall'.calls) :
              lastCall'.calls[k] \notin {"aifw_session_create", "aifw_session_config",
                                         "aifw_session_destroy", "aifw_session_mask_and_out_meta",
                                         "aifw_session_restore_with_meta",
                                         "aifw_session_get_pii_spans"}]_vars

\* C21: a config command that gives only --mask-phone-number false, run right after
\* a config command that gave only --mask-email false against the same running
\* service, leaves e-mail masking disabled in the session of the service.
C21_UnspecifiedFlagMeansNoChange ==
    [][(/\ instances # <<>>
        /\ lastCall.op = "cmd_config"
        /\ lastCall.cfg = [maskEmail |-> "False"]
        /\ lastCall'.op = "cmd_config"
        /\ lastCall'.cfg = [maskPhoneNumber |-> "False"])
          => /\ _SESSION_OPEN'
             /\ 1 \notin coreSessions'[_SESSION_HANDLE']]_vars

\* C20: while the policy carries no boolean maskAll, _is_entity_enabled of an entity
\* type is the boolean the policy gives for the type's flag when it gives one,
\* otherwise the default of the flag (false for maskAddress, true for the others),
\* and true for an entity type that has no flag.
C20_EnabledWithoutMaskAll ==
    (lastCall.op = "_is_entity_enabled" /\ DictGet(_mask_config, "maskAll") \notin {"True", "False"})
        => (lastCall.result <=> IsEnabled(_mask_config, lastCall.entity_type))

\* address masking switched on by the policy, against its default, without maskAll
C20_Witness ==
    /\ lastCall.op = "_is_entity_enabled"
    /\ lastCall.entity_type = "PHYSICAL_ADDRESS"
    /\ "maskAll" \notin DOMAIN _mask_config
    /\ DictGet(_mask_config, "maskAddress") = "True"
    /\ lastCall.result

\* C18: the results an anonymize call keeps are those enabled under one single
\* policy among the policies that were active while the call ran, also when
\* set_mask_config runs in between.
C18_PolicyUpdateAtomic ==
    lastCall.op = "anonymize" =>
        \E policy \in lastCall.cfgs :
            \A i \in 1..Len(lastCall.results) :
                IsEnabled(policy, lastCall.results[i].entity_type)
                    <=> \E k \in 1..Len(lastCall.kept) : lastCall.kept[k] = lastCall.results[i]

====
